---------------------------- MODULE Spec2Model ----------------------------
(***************************************************************************)
(* Model of the match-making queue, presence registry, session relay,     *)
(* message moderation and Redis bridge of the Express/Socket.IO server    *)
(* (server/routes.ts, server/services/matchmaking.ts, the presence         *)
(* service, server/services/aiEmbedding.ts, server/redis.ts).              *)
(*                                                                         *)
(* Time is the value of Date.now() in minutes.  Scores are kept in         *)
(* quarter points (score * 4), so that every term of the weighted sum is   *)
(* an integer; a compatibility is kept in fortieths (compatibility * 40).  *)
(* Every "await" of a Redis call is a suspension point at which any other  *)
(* handler may run (Redis configured and connected); an "await" of an      *)
(* async function that returns without I/O is a microtask yield at which   *)
(* only continuations of handlers that are already in flight may run;      *)
(* while the tick has not awaited Redis since its timer fired, it runs     *)
(* alone.                                                                  *)
(* StoreSpec runs the service operations one at a time over a Redis        *)
(* connection that may be missing, down or failing; ListSpec runs the      *)
(* presence operations one at a time and lists the online users; ScoreSpec *)
(* applies the scorer to drawn pairs of profiles; TickSpec runs the tick   *)
(* on drawn waiting sets while connections close; StaleSpec lets one       *)
(* connection repeat its request before the timers fire.                   *)
(***************************************************************************)
EXTENDS Integers, Sequences, FiniteSets, TLC

\* ------------------------------------------------------------------ bounds
MaxSockets == 3
MaxJoins == 4
MaxEvents == 2
MaxDisconnects == 2
MaxRooms == 2
MaxClockSteps == 2
MaxCount == 2

\* Minutes between two readings of the clock that the model distinguishes.
ClockStep == 6

\* ------------------------------------------------------- program constants
\* compatibility > 0.3, in fortieths
Threshold == 12
\* score / maxScore with maxScore = 10, in quarter points
MaxScore == 40
\* staleThreshold = 10 * 60 * 1000 ms, in minutes
StaleThreshold == 10
\* activityTimeout = 5 * 60 * 1000 ms, in minutes
ActivityTimeout == 5
\* wait bonus reaches its maximum after 2 minutes of average wait
WaitBonusSpan == 2

Sockets == 1..MaxSockets
Users == 1..MaxSockets
RoomIds == 1..MaxRooms
ChatModes == {"text", "video"}

Min(a, b) == IF a < b THEN a ELSE b

\* The value of an absent optional string field (undefined is falsy, as "").
None == ""
NoLocation == [country |-> None, timezone |-> None]
AnyOnEarth == "Any on Earth"

\* ------------------------------------------------------------ the scorer

checkGenderCompatibility(user1, user2) ==
    IF user1.genderPreference = None /\ user2.genderPreference = None
    THEN TRUE
    ELSE LET user1Compatible == \/ user1.genderPreference = None
                                \/ (user2.gender # None /\ user1.genderPreference = user2.gender)
             user2Compatible == \/ user2.genderPreference = None
                                \/ (user1.gender # None /\ user2.genderPreference = user1.gender)
         IN  user1Compatible /\ user2Compatible

checkCountryCompatibility(user1, user2) ==
    IF /\ (user1.countryPreference = None \/ user1.countryPreference = AnyOnEarth)
       /\ (user2.countryPreference = None \/ user2.countryPreference = AnyOnEarth)
    THEN TRUE
    ELSE IF \/ (user1.countryPreference = AnyOnEarth /\ user2.countryPreference # None)
            \/ (user2.countryPreference = AnyOnEarth /\ user1.countryPreference # None)
    THEN TRUE
    ELSE user1.countryPreference = user2.countryPreference

\* The points of step 1 (chat mode), or "incompatible".
ChatModeCompatible(user1, user2) == user1.chatMode = user2.chatMode

GenderPoints(user1, user2) ==
    IF checkGenderCompatibility(user1, user2) THEN 8
    ELSE IF user1.genderPreference # None \/ user2.genderPreference # None THEN -4
    ELSE 0

CountryPoints(user1, user2) ==
    IF checkCountryCompatibility(user1, user2) THEN 8
    ELSE IF \/ (user1.countryPreference # None /\ user1.countryPreference # AnyOnEarth)
            \/ (user2.countryPreference # None /\ user2.countryPreference # AnyOnEarth)
    THEN -4
    ELSE 0

commonInterests(user1, user2) == user1.interests \cap user2.interests

\* A cap that drops the points of more than four common interests.
InterestPoints_DroppedAboveCap(user1, user2) ==
    IF 2 * Cardinality(commonInterests(user1, user2)) > 8
    THEN 0
    ELSE 2 * Cardinality(commonInterests(user1, user2))

InterestPoints(user1, user2) ==
    IF Cardinality(commonInterests(user1, user2)) > 0
    THEN Min(8, 2 * Cardinality(commonInterests(user1, user2)))
    ELSE 0

LocationPoints(user1, user2) ==
    IF user1.location # NoLocation /\ user2.location # NoLocation
    THEN IF user1.location.country = user2.location.country THEN 4
         ELSE IF user1.location.timezone = user2.location.timezone THEN 2
         ELSE 0
    ELSE 0

LanguagePoints(user1, user2) ==
    IF /\ user1.language # None /\ user2.language # None
       /\ user1.language = user2.language
    THEN 4 ELSE 0

VerifiedPoints(user1, user2) == IF user1.verified /\ user2.verified THEN 2 ELSE 0

\* 4 * Math.min(1, avgWaitTime / (60000 * 2)) with
\* avgWaitTime = ((t - joinedAt1) + (t - joinedAt2)) / 2: a whole number of
\* quarter points, since the times are whole minutes.
WaitPoints(user1, user2, t) ==
    Min(4, (4 * ((t - user1.joinedAt) + (t - user2.joinedAt))) \div (2 * WaitBonusSpan))

Criteria(user1, user2) ==
    {"chat_mode"}
    \cup (IF checkGenderCompatibility(user1, user2) THEN {"gender_preference"} ELSE {})
    \cup (IF checkCountryCompatibility(user1, user2) THEN {"country_preference"} ELSE {})
    \cup (IF commonInterests(user1, user2) # {} THEN {"interests"} ELSE {})
    \cup (IF user1.location # NoLocation /\ user2.location # NoLocation
          THEN IF user1.location.country = user2.location.country THEN {"location"}
               ELSE IF user1.location.timezone = user2.location.timezone THEN {"timezone"}
               ELSE {}
          ELSE {})
    \cup (IF LanguagePoints(user1, user2) > 0 THEN {"language"} ELSE {})
    \cup (IF VerifiedPoints(user1, user2) > 0 THEN {"verified"} ELSE {})

Score(user1, user2, t) ==
    12 + GenderPoints(user1, user2) + CountryPoints(user1, user2)
       + InterestPoints(user1, user2) + LocationPoints(user1, user2)
       + LanguagePoints(user1, user2) + VerifiedPoints(user1, user2)
       + WaitPoints(user1, user2, t)

\* The score returned as it is, above maxScore too.
Clamp_Unbounded(score) == score

\* Math.min(1, score / maxScore), in fortieths
Clamp(score) == Min(MaxScore, score)

\* The scorer without its first step: every pair is scored.
calculateCompatibility_NoChatModeCheck(user1, user2, t) ==
    [compatibility |-> Clamp(Score(user1, user2, t)),
     criteria |-> Criteria(user1, user2)]

calculateCompatibility(user1, user2, t) ==
    IF ~ChatModeCompatible(user1, user2)
    THEN [compatibility |-> 0, criteria |-> {}]
    ELSE [compatibility |-> Clamp(Score(user1, user2, t)),
          criteria |-> Criteria(user1, user2)]

\* ------------------------------------------------------------------ state

VARIABLES
    now,                \* Date.now(), in minutes
    conn,               \* socket -> "open" | "closed" | "absent" (Socket.IO connection)
    rooms,              \* Socket.IO adapter: room id -> sockets that joined it
    waitingQueue,       \* MatchmakingService.waitingQueue, in insertion order
    activeMatches,      \* MatchmakingService.activeMatches (set of MatchResult)
    matchingInProgress, \* MatchmakingService.matchingInProgress
    nextRoom,           \* room ids handed out so far, plus one
    onlineUsers,        \* PresenceService.onlineUsers: user -> record or NoRecord
    userSockets,        \* PresenceService.userSockets: user -> socket or 0
    socketUsers,        \* PresenceService.socketUsers: socket -> user or 0
    activeChats,        \* routes.ts activeChats (room ids)
    joins,              \* the join-queue handler invocations, by request number
    nJoins,             \* join-queue requests received so far
    tick,               \* the processWaitingQueue invocation in flight
    disc,               \* socket -> position of its disconnect handler
    msgs,               \* send-message handlers inside moderateText, awaiting a Redis
                        \* reply, in the order of the commands they sent
    nEvents,            \* chat, typing, signaling and control events received so far
    emitted,            \* the events the latest step delivered to clients
    teardowns,          \* <<socket, room>> -> teardown notifications delivered (capped)
    pairedAtClose,      \* socket -> what it shared a room with when its transport closed
    found,              \* <<socket, room>> pairs that were sent match-found
    ended,              \* the sessions a member has left, skipped or disconnected from
    malformed,          \* the malformed request the latest step received, if any
    received,           \* socket -> the chat messages it was sent, in order
    presence,           \* the presence:update events the latest step broadcast
    leaving,            \* socket -> the user whose setUserOffline call its
                        \* disconnect handler awaits, 0 when none
    store,              \* the state of the Redis connection
    reply,              \* what the latest call of a service or bridge operation
                        \* returned, when one was made on its own
    onlineOrder,        \* the user ids in the order of their insertion in
                        \* onlineUsers, followed while the presence operations
                        \* are called on their own
    scored,             \* the pair of profiles handed to calculateCompatibility on
                        \* its own, the time of the call and what it returned
    budget              \* the requests the environment makes in this behaviour, at most

vars == <<now, conn, rooms, waitingQueue, activeMatches, matchingInProgress, nextRoom,
          onlineUsers, userSockets, socketUsers, activeChats, joins, nJoins, tick,
          disc, msgs, nEvents, emitted, teardowns, pairedAtClose, found, budget, ended,
          malformed, received, presence, leaving, store, reply, onlineOrder, scored>>

matchVars == <<waitingQueue, activeMatches, matchingInProgress, nextRoom>>
presenceVars == <<onlineUsers, userSockets, socketUsers>>
bridgeVars == <<store, reply>>

NoRecord == [socketId |-> 0, joinedAt |-> 0, lastActivity |-> 0]

NoProfile ==
    [id |-> 0, socketId |-> 0, interests |-> {}, chatMode |-> None, gender |-> None,
     genderPreference |-> None, countryPreference |-> None, location |-> NoLocation,
     language |-> None, verified |-> FALSE, joinedAt |-> 0]

NoMatch ==
    [roomId |-> 0, user1 |-> NoProfile, user2 |-> NoProfile, compatibility |-> 0,
     matchedOn |-> {}]

\* What a client may put in a join-queue request besides its user id.
UserDatas ==
    { [chatMode |-> m, interests |-> i, gender |-> None, genderPreference |-> None]
        : m \in ChatModes, i \in {{"music"}} }

\* The user ids socket s may claim: its own, and for the second socket that of
\* the first (one user on two connections, one connection under two users).
UserIdsOf(s) == IF s = 2 THEN {1, 2} ELSE {s}

\* The join-queue requests socket s may send in this behaviour; uid 0 stands
\* for a request without its "user" field.
Requests(s) ==
    { r \in [uid : (IF budget.shared THEN UserIdsOf(s) ELSE {s})
                       \cup (IF budget.bad THEN {0} ELSE {}),
              data : UserDatas] :
        r.data.chatMode \in budget.modes }

\* The environments explored: how many sockets connect, how many requests,
\* events and disconnects the clients send, how often the clock is read anew,
\* the chat modes the requests name, the chat messages sent, whether the rate
\* key of a message's user id may be new in the store, whether the clients
\* also send requests that lack a required field, and whether a connection
\* may name the user id of another.
Budgets ==
    { [sockets |-> MaxSockets, joins |-> MaxJoins, events |-> 0, discs |-> 0, clock |-> 0,
       modes |-> {"text"}, texts |-> {}, fresh |-> {FALSE}, bad |-> FALSE, shared |-> FALSE],
      [sockets |-> MaxSockets, joins |-> 2, events |-> MaxEvents, discs |-> 1, clock |-> 0,
       modes |-> ChatModes, texts |-> {" "}, fresh |-> {FALSE}, bad |-> FALSE, shared |-> TRUE],
      [sockets |-> 2, joins |-> 2, events |-> MaxEvents, discs |-> MaxDisconnects,
       clock |-> 0, modes |-> {"text"}, texts |-> {"hello", " "}, fresh |-> BOOLEAN,
       bad |-> FALSE, shared |-> TRUE],
      [sockets |-> 2, joins |-> 2, events |-> 0, discs |-> 1, clock |-> MaxClockSteps,
       modes |-> ChatModes, texts |-> {}, fresh |-> {FALSE}, bad |-> FALSE, shared |-> TRUE] }

\* ------------------------------------------------- Map and Set helpers

\* Map.delete that, for a key the Map does not hold, drops the oldest entry.
SeqRemove_OrOldest(q, socketId) ==
    IF \E i \in 1..Len(q) : q[i].socketId = socketId
    THEN SelectSeq(q, LAMBDA p : p.socketId # socketId)
    ELSE IF q = <<>> THEN q ELSE Tail(q)

RECURSIVE SeqRemove(_, _)
\* Map.delete(socketId) on a Map kept as the sequence of its values
SeqRemove(q, socketId) ==
    IF q = <<>> THEN <<>>
    ELSE IF Head(q).socketId = socketId THEN SeqRemove(Tail(q), socketId)
    ELSE <<Head(q)>> \o SeqRemove(Tail(q), socketId)

\* A Map.has that finds nothing.
QueueHas_Never(q, socketId) == FALSE

QueueHas(q, socketId) == \E i \in 1..Len(q) : q[i].socketId = socketId

\* Map.set(socketId, profile): an existing key keeps its place
QueueSet(q, profile) ==
    IF QueueHas(q, profile.socketId)
    THEN [i \in 1..Len(q) |-> IF q[i].socketId = profile.socketId THEN profile ELSE q[i]]
    ELSE Append(q, profile)

Members(match) == {match.user1.socketId, match.user2.socketId}

\* activeMatches.get(roomId), as a set (empty when there is none)
SessionsOf(roomId) == {m \in activeMatches : m.roomId = roomId}

\* The sessions of room roomId that socket s, one of their members, ends.
EndedBy(s, roomId, how) ==
    { [room |-> roomId, by |-> s, peer |-> p, how |-> how]
        : p \in {q \in Sockets \ {s} : \E m \in SessionsOf(roomId) : Members(m) = {s, q}} }

\* io.sockets.sockets: the connected sockets
Open == {s \in Sockets : conn[s] = "open"}

\* ------------------------------------------------------------ findMatch

NoBest == [profile |-> NoProfile, compatibility |-> 0, criteria |-> {}]

\* The candidate at (socketId, candidate) is skipped without the identity check.
SkipCandidate_NoSelfCheck(targetUser, candidate, inProgress) ==
    candidate.socketId \in inProgress

\* findMatch: "Skip if already being matched", "Skip same user"
SkipCandidate(targetUser, candidate, inProgress) ==
    \/ candidate.socketId \in inProgress
    \/ candidate.socketId = targetUser.socketId

\* The threshold test of a scan that keeps the first candidate that passes.
Better_FirstFit(compatibility, bestCompatibility) ==
    compatibility > Threshold /\ bestCompatibility = 0

\* findMatch: "Require minimum compatibility threshold"
Better(compatibility, bestCompatibility) ==
    compatibility > Threshold /\ compatibility > bestCompatibility

RECURSIVE ScanFrom(_, _, _, _, _, _)
\* The for loop of findMatch over waitingQueue.entries(), from entry i on.
ScanFrom(targetUser, q, i, inProgress, t, best) ==
    IF i > Len(q) THEN best
    ELSE IF SkipCandidate(targetUser, q[i], inProgress)
    THEN ScanFrom(targetUser, q, i + 1, inProgress, t, best)
    ELSE LET c == calculateCompatibility(targetUser, q[i], t)
         IN  IF Better(c.compatibility, best.compatibility)
             THEN ScanFrom(targetUser, q, i + 1, inProgress, t,
                           [profile |-> q[i], compatibility |-> c.compatibility,
                            criteria |-> c.criteria])
             ELSE ScanFrom(targetUser, q, i + 1, inProgress, t, best)

\* findMatch up to its call of createMatch: the best candidate, or NoBest.
findMatch(targetUser, q, inProgress, t) == ScanFrom(targetUser, q, 1, inProgress, t, NoBest)

\* createMatch up to its first await: the new MatchResult, not yet stored.
createMatch(user1, best, roomId) ==
    [roomId |-> roomId, user1 |-> user1, user2 |-> best.profile,
     compatibility |-> best.compatibility, matchedOn |-> best.criteria]

\* removeFromQueue up to its await
removeFromQueue(socketId) ==
    /\ waitingQueue' = SeqRemove(waitingQueue, socketId)
    /\ matchingInProgress' = matchingInProgress \ {socketId}

\* ------------------------------------------------------------- presence

HasRecord(u) == onlineUsers[u] # NoRecord

\* setUserOffline up to its await, for a user that has a record
setUserOfflineMaps(userId) ==
    LET socketId == userSockets[userId]
    IN  /\ onlineUsers' = [onlineUsers EXCEPT ![userId] = NoRecord]
        /\ userSockets' = [userSockets EXCEPT ![userId] = 0]
        /\ socketUsers' = IF socketId # 0
                          THEN [socketUsers EXCEPT ![socketId] = 0]
                          ELSE socketUsers

\* setUserOnline from the end of setUserOffline to its await
setUserOnlineMaps(userId, socketId) ==
    /\ onlineUsers' = [onlineUsers EXCEPT ![userId] =
                          [socketId |-> socketId, joinedAt |-> now, lastActivity |-> now]]
    /\ userSockets' = [userSockets EXCEPT ![userId] = socketId]
    /\ socketUsers' = [socketUsers EXCEPT ![socketId] = userId]

\* ---------------------------------------------------------------- relay

\* io.to(roomId): every connected socket of the room, the sender too
BroadcastTo_WholeRoom(sender, roomId) == rooms[roomId] \cap Open

\* socket.to(roomId): every connected socket of the room but the sender
BroadcastTo(sender, roomId) == (rooms[roomId] \ {sender}) \cap Open

Deliveries(sender, roomId, ev) ==
    { [to |-> s, ev |-> ev, room |-> roomId, from |-> sender, n |-> 0, text |-> None]
        : s \in BroadcastTo(sender, roomId) }

\* socket.to(roomId).emit("receive-message", messageData) for the message that
\* came in as event n
MessageDeliveries(sender, roomId, n, text) ==
    { [to |-> s, ev |-> "receive-message", room |-> roomId, from |-> sender, n |-> n,
       text |-> text]
        : s \in BroadcastTo(sender, roomId) }

\* io.to(socketId) / socket.emit: the socket itself, when connected
Direct(s, roomId, ev, sender) ==
    IF s \in Open
    THEN {[to |-> s, ev |-> ev, room |-> roomId, from |-> sender, n |-> 0, text |-> None]}
    ELSE {}

TeardownEvents == {"stranger-disconnected", "finding-new-match"}
RelayEvents ==
    {"typing-start", "typing-stop", "webrtc-offer", "webrtc-answer", "webrtc-ice-candidate"}

\* The event a relay handler emits for the event it received.
Outgoing(ev) == IF ev \in {"typing-start", "typing-stop"} THEN "user-typing" ELSE ev

Counted(ds) ==
    [p \in Sockets \X RoomIds |->
        IF \E d \in ds : d.to = p[1] /\ d.room = p[2] /\ d.ev \in TeardownEvents
        THEN Min(MaxCount, teardowns[p] + 1)
        ELSE teardowns[p]]

\* The chat messages among the events ds, added to what their receivers were
\* sent before (a step delivers at most one to a socket).
Inbox(ds) ==
    [s \in Sockets |->
        IF \E d \in ds : d.to = s /\ d.ev = "receive-message"
        THEN LET d == CHOOSE e \in ds : e.to = s /\ e.ev = "receive-message"
             IN  Append(received[s], [n |-> d.n, from |-> d.from, room |-> d.room])
        ELSE received[s]]

NoRequest == [sock |-> 0, ev |-> None]

\* The step delivers the events ds to clients and broadcasts the
\* presence:update events ps.
SendsAnd(ds, ps) ==
    /\ emitted' = ds
    /\ teardowns' = Counted(ds)
    /\ found' = found \cup {<<d.to, d.room>> : d \in {e \in ds : e.ev = "match-found"}}
    /\ received' = Inbox(ds)
    /\ presence' = ps

\* The step delivers the events ds to clients.
Sends(ds) == SendsAnd(ds, {})

\* setUserOffline without its broadcast.
OfflineEvent_Silent(userId) == {}

\* io.emit('presence:update', {type: 'user_offline', user, ...})
OfflineEvent(userId) == {[type |-> "user_offline", user |-> userId]}

\* io.emit('presence:update', {type: 'user_online', user, ...})
OnlineEvent(userId) == {[type |-> "user_online", user |-> userId]}

\* The step handles a well-formed request, or none, delivers the events ds and
\* broadcasts the presence:update events ps.
Announce(ds, ps) ==
    /\ SendsAnd(ds, ps)
    /\ malformed' = NoRequest

\* The step handles a well-formed request, or none, and delivers the events ds.
Emit(ds) ==
    /\ Sends(ds)
    /\ malformed' = NoRequest

\* A microtask yield is pending: only continuations of handlers in flight run.
Micro ==
    \/ \E j \in joins : j.pc = "nm_mu"
    \/ tick.pc = "t_mu"

\* The tick has not awaited Redis since its timer fired: it runs on in the
\* microtasks of the timer's turn, before any reply of Redis is handled.
TimerTurn == tick.pc = "t_mu" /\ tick.processed = {}

Quiet == Emit({})

\* No operation was called on its own.
NoReply == [op |-> None, raised |-> FALSE, value |-> None]

IdleTick ==
    [pc |-> "idle", snapshot |-> <<>>, idx |-> 0, processed |-> {}, match |-> NoMatch]

\* Redis is configured and connected, and no operation was called on its own.
Connected ==
    /\ store = "available"
    /\ reply = NoReply

\* calculateCompatibility has not been called on its own.
NoResult == [compatibility |-> -1, criteria |-> {}]
NoScore == [user1 |-> NoProfile, user2 |-> NoProfile, t |-> 0, result |-> NoResult]
NothingScored == scored = NoScore

\* The state after construction, in environment b.
InitWith(b) ==
    /\ budget = b
    /\ now = 0
    /\ conn = [s \in Sockets |-> IF s <= budget.sockets THEN "open" ELSE "absent"]
    /\ rooms = [r \in RoomIds |-> {}]
    /\ waitingQueue = <<>>
    /\ activeMatches = {}
    /\ matchingInProgress = {}
    /\ nextRoom = 1
    /\ onlineUsers = [u \in Users |-> NoRecord]
    /\ userSockets = [u \in Users |-> 0]
    /\ socketUsers = [s \in Sockets |-> 0]
    /\ activeChats = {}
    /\ joins = {}
    /\ nJoins = 0
    /\ tick = IdleTick
    /\ disc = [s \in Sockets |-> "none"]
    /\ msgs = <<>>
    /\ nEvents = 0
    /\ emitted = {}
    /\ teardowns = [p \in Sockets \X RoomIds |-> 0]
    /\ pairedAtClose = [s \in Sockets |-> {}]
    /\ found = {}
    /\ ended = {}
    /\ malformed = NoRequest
    /\ received = [s \in Sockets |-> <<>>]
    /\ presence = {}
    /\ leaving = [s \in Sockets |-> 0]
    /\ onlineOrder = <<>>

Init == Connected /\ NothingScored /\ \E b \in Budgets : InitWith(b)

\* ------------------------------------------------------ connection, clock

AdvanceClock ==
    /\ ~Micro
    /\ now < budget.clock * ClockStep
    /\ now' = now + ClockStep
    /\ Quiet
    /\ UNCHANGED <<conn, rooms, matchVars, presenceVars, activeChats, joins, nJoins, tick,
                   disc, msgs, nEvents, pairedAtClose, budget, scored, bridgeVars, onlineOrder, leaving, ended>>

\* ------------------------------------------------- the join-queue handler

Task(n, s, uid, d, pc) ==
    [n |-> n, sock |-> s, uid |-> uid, data |-> d, pc |-> pc, profile |-> NoProfile,
     match |-> NoMatch]

\* routes.ts: the userProfile of a request (no countryPreference is passed on)
userProfile(j) ==
    [id |-> j.uid, socketId |-> j.sock, interests |-> j.data.interests,
     chatMode |-> j.data.chatMode, gender |-> j.data.gender,
     genderPreference |-> j.data.genderPreference, countryPreference |-> None,
     location |-> NoLocation, language |-> None, verified |-> FALSE, joinedAt |-> now]

Replace(j, k) == (joins \ {j}) \cup {k}

\* socket.on("join-queue") to the first await inside setUserOnline; without
\* userData.user the argument userData.user.id throws before anything is
\* called, and the catch block answers "error".
JoinQueue(s, uid, d) ==
    /\ ~Micro
    /\ conn[s] = "open"
    /\ IF uid = 0
       THEN /\ Sends(Direct(s, 0, "error", s))
            /\ malformed' = [sock |-> s, ev |-> "join-queue"]
            /\ UNCHANGED <<nJoins, joins, presenceVars>>
       ELSE /\ nJoins < budget.joins
            /\ nJoins' = nJoins + 1
            /\ IF HasRecord(uid)
               THEN /\ setUserOfflineMaps(uid)
                    /\ joins' = joins \cup {Task(nJoins + 1, s, uid, d, "off_io")}
               ELSE /\ setUserOnlineMaps(uid, s)
                    /\ joins' = joins \cup {Task(nJoins + 1, s, uid, d, "on_io")}
            /\ Quiet
    /\ UNCHANGED <<now, conn, rooms, matchVars, activeChats, tick, disc, msgs, nEvents,
                   pairedAtClose, budget, scored, bridgeVars, onlineOrder, leaving, ended>>

\* setUserOnline after "await this.setUserOffline" to "await redisManager.setUserOnline"
JoinSetOnline(j) ==
    /\ ~TimerTurn
    /\ j.pc = "off_io"
    /\ setUserOnlineMaps(j.uid, j.sock)
    /\ joins' = Replace(j, [j EXCEPT !.pc = "on_io"])
    /\ Announce({}, OfflineEvent(j.uid))
    /\ UNCHANGED <<now, conn, rooms, matchVars, activeChats, nJoins, tick, disc, msgs,
                   nEvents, pairedAtClose, budget, scored, bridgeVars, onlineOrder, leaving, ended>>

\* the end of setUserOnline, the profile, and addToQueue to its first await
JoinAddToQueue(j) ==
    /\ ~TimerTurn
    /\ j.pc = "on_io"
    /\ IF QueueHas(waitingQueue, j.sock) \/ j.sock \in matchingInProgress
       THEN /\ joins' = joins \ {j}
            /\ Announce(Direct(j.sock, 0, "waiting-for-match", j.sock), OnlineEvent(j.uid))
       ELSE /\ joins' = Replace(j, [j EXCEPT !.pc = "q_io", !.profile = userProfile(j)])
            /\ Announce({}, OnlineEvent(j.uid))
    /\ UNCHANGED <<now, conn, rooms, matchVars, presenceVars, activeChats, nJoins, tick,
                   disc, msgs, nEvents, pairedAtClose, budget, scored, bridgeVars, onlineOrder, leaving, ended>>

\* addToQueue: findMatch, and createMatch to its first await
JoinFindMatch(j) ==
    /\ ~TimerTurn
    /\ j.pc = "q_io"
    /\ LET best == findMatch(j.profile, waitingQueue, matchingInProgress, now)
       IN  IF best.profile # NoProfile
           THEN /\ nextRoom <= MaxRooms
                /\ nextRoom' = nextRoom + 1
                /\ matchingInProgress' =
                       matchingInProgress \cup {j.sock, best.profile.socketId}
                /\ waitingQueue' =
                       SeqRemove(SeqRemove(waitingQueue, j.sock), best.profile.socketId)
                /\ joins' = Replace(j, [j EXCEPT !.pc = "cm_io1",
                                          !.match = createMatch(j.profile, best, nextRoom)])
           ELSE /\ joins' = Replace(j, [j EXCEPT !.pc = "nm_mu"])
                /\ UNCHANGED <<nextRoom, matchingInProgress, waitingQueue>>
    /\ Quiet
    /\ UNCHANGED <<now, conn, rooms, activeMatches, presenceVars, activeChats, nJoins, tick,
                   disc, msgs, nEvents, pairedAtClose, budget, scored, bridgeVars, onlineOrder, leaving, ended>>

\* addToQueue after findMatch returned null, and the handler's else branch
JoinEnqueue(j) ==
    /\ ~TimerTurn
    /\ j.pc = "nm_mu"
    /\ waitingQueue' = QueueSet(waitingQueue, j.profile)
    /\ joins' = joins \ {j}
    /\ Emit(Direct(j.sock, 0, "waiting-for-match", j.sock))
    /\ UNCHANGED <<now, conn, rooms, activeMatches, matchingInProgress, nextRoom,
                   presenceVars, activeChats, nJoins, tick, disc, msgs, nEvents,
                   pairedAtClose, budget, scored, bridgeVars, onlineOrder, leaving, ended>>

\* createMatch between the Redis deletes and the Redis writes
JoinStoreMatch(j) ==
    /\ ~TimerTurn
    /\ j.pc = "cm_io1"
    /\ activeMatches' = activeMatches \cup {j.match}
    /\ joins' = Replace(j, [j EXCEPT !.pc = "cm_io2"])
    /\ Quiet
    /\ UNCHANGED <<now, conn, rooms, waitingQueue, matchingInProgress, nextRoom,
                   presenceVars, activeChats, nJoins, tick, disc, msgs, nEvents,
                   pairedAtClose, budget, scored, bridgeVars, onlineOrder, leaving, ended>>

MatchFound(j) ==
    Direct(j.sock, j.match.roomId, "match-found", j.sock)
    \cup Direct(j.match.user2.socketId, j.match.roomId, "match-found", j.sock)

\* socket.join(roomId); io.sockets.sockets.get(user2.socketId)?.join(roomId)
Joined(j) ==
    [rooms EXCEPT ![j.match.roomId] =
        @ \cup {j.sock} \cup ({j.match.user2.socketId} \cap Open)]

\* the handler's "if (match)" branch to the LiveKit await or to its end
JoinNotify(j) ==
    /\ ~TimerTurn
    /\ j.pc = "cm_io2"
    /\ rooms' = Joined(j)
    /\ IF j.match.user1.chatMode = "video"
       THEN /\ joins' = Replace(j, [j EXCEPT !.pc = "lk_io"])
            /\ Quiet
       ELSE /\ joins' = joins \ {j}
            /\ Emit(MatchFound(j))
    /\ UNCHANGED <<now, conn, matchVars, presenceVars, activeChats, nJoins, tick, disc,
                   msgs, nEvents, pairedAtClose, budget, scored, bridgeVars, onlineOrder, leaving, ended>>

\* after "await liveKitService.createMatchTokens"
JoinNotifyVideo(j) ==
    /\ ~TimerTurn
    /\ j.pc = "lk_io"
    /\ joins' = joins \ {j}
    /\ Emit(MatchFound(j))
    /\ UNCHANGED <<now, conn, rooms, matchVars, presenceVars, activeChats, nJoins, tick,
                   disc, msgs, nEvents, pairedAtClose, budget, scored, bridgeVars, onlineOrder, leaving, ended>>

\* ------------------------------------------------ processWaitingQueue

\* A pass of the tick that scans for nobody.
TickLoop_Idle(snapshot, i, processed) ==
    /\ tick' = IdleTick
    /\ UNCHANGED matchVars

\* The for loop of processWaitingQueue from snapshot entry i on, up to the next
\* await: the entries that are processed or being matched are passed over, and
\* findMatch runs for the first one that is not.
TickLoop(snapshot, i, processed) ==
    LET todo == {k \in i..Len(snapshot) :
                    snapshot[k].socketId \notin processed \cup matchingInProgress}
    IN  IF todo = {}
        THEN /\ tick' = IdleTick
             /\ UNCHANGED matchVars
        ELSE LET k == CHOOSE k \in todo : \A l \in todo : k <= l
                 user == snapshot[k]
                 best == findMatch(user, waitingQueue, matchingInProgress, now)
             IN  IF best.profile # NoProfile
                 THEN /\ nextRoom <= MaxRooms
                      /\ nextRoom' = nextRoom + 1
                      /\ matchingInProgress' =
                             matchingInProgress \cup {user.socketId, best.profile.socketId}
                      /\ waitingQueue' =
                             SeqRemove(SeqRemove(waitingQueue, user.socketId),
                                       best.profile.socketId)
                      /\ tick' = [pc |-> "t_cm_io1", snapshot |-> snapshot, idx |-> k,
                                  processed |-> processed,
                                  match |-> createMatch(user, best, nextRoom)]
                      /\ UNCHANGED activeMatches
                 ELSE /\ tick' = [pc |-> "t_mu", snapshot |-> snapshot, idx |-> k,
                                  processed |-> processed, match |-> NoMatch]
                      /\ UNCHANGED matchVars

\* setInterval(() => this.processWaitingQueue(), 5000); one invocation at a time
TickStart ==
    /\ ~Micro
    /\ tick.pc = "idle"
    /\ Len(waitingQueue) >= 2
    /\ TickLoop(waitingQueue, 1, {})
    /\ Quiet
    /\ UNCHANGED <<now, conn, rooms, presenceVars, activeChats, joins, nJoins, disc, msgs,
                   nEvents, pairedAtClose, budget, scored, bridgeVars, onlineOrder, leaving, ended>>

\* createMatch between the Redis deletes and the Redis writes
TickStoreMatch ==
    /\ ~TimerTurn
    /\ tick.pc = "t_cm_io1"
    /\ activeMatches' = activeMatches \cup {tick.match}
    /\ tick' = [tick EXCEPT !.pc = "t_cm_io2"]
    /\ Quiet
    /\ UNCHANGED <<now, conn, rooms, waitingQueue, matchingInProgress, nextRoom,
                   presenceVars, activeChats, joins, nJoins, disc, msgs, nEvents,
                   pairedAtClose, budget, scored, bridgeVars, onlineOrder, leaving, ended>>

\* after "await this.findMatch(user)": the match is noted and the loop goes on
TickContinue ==
    /\ tick.pc \in {"t_cm_io2", "t_mu"}
    /\ TickLoop(tick.snapshot, tick.idx + 1,
                IF tick.pc = "t_cm_io2"
                THEN tick.processed \cup Members(tick.match)
                ELSE tick.processed)
    /\ Quiet
    /\ UNCHANGED <<now, conn, rooms, presenceVars, activeChats, joins, nJoins, disc, msgs,
                   nEvents, pairedAtClose, budget, scored, bridgeVars, onlineOrder, leaving, ended>>

\* ------------------------------------------------------------ the sweeps

\* A stale test that compares the age with the threshold in seconds.
Stale_InSeconds(user) == now - user.joinedAt > StaleThreshold * 60

Stale(user) == now - user.joinedAt > StaleThreshold

RECURSIVE SeqFilterFresh(_)
SeqFilterFresh(q) ==
    IF q = <<>> THEN <<>>
    ELSE IF Stale(Head(q)) THEN SeqFilterFresh(Tail(q))
    ELSE <<Head(q)>> \o SeqFilterFresh(Tail(q))

\* setInterval(() => this.cleanupStaleEntries(), 60000)
cleanupStaleEntries ==
    /\ ~Micro
    /\ \E i \in 1..Len(waitingQueue) : Stale(waitingQueue[i])
    /\ waitingQueue' = SeqFilterFresh(waitingQueue)
    /\ matchingInProgress' =
           matchingInProgress \ {waitingQueue[i].socketId :
                                    i \in {k \in 1..Len(waitingQueue) : Stale(waitingQueue[k])}}
    /\ Quiet
    /\ UNCHANGED <<now, conn, rooms, activeMatches, nextRoom, presenceVars, activeChats,
                   joins, nJoins, tick, disc, msgs, nEvents, pairedAtClose, budget, scored, bridgeVars, onlineOrder, leaving, ended>>

Inactive(u) == HasRecord(u) /\ now - onlineUsers[u].lastActivity > ActivityTimeout

\* setInterval(() => this.cleanupInactiveUsers(), 60 * 1000)
cleanupInactiveUsers ==
    /\ ~Micro
    /\ \E u \in Users : Inactive(u)
    /\ onlineUsers' = [u \in Users |-> IF Inactive(u) THEN NoRecord ELSE onlineUsers[u]]
    /\ userSockets' = [u \in Users |->
                          IF Inactive(u) /\ userSockets[u] # 0 THEN 0 ELSE userSockets[u]]
    /\ socketUsers' = [s \in Sockets |->
                          IF \E u \in Users : Inactive(u) /\ userSockets[u] = s
                          THEN 0 ELSE socketUsers[s]]
    /\ onlineOrder' = SelectSeq(onlineOrder, LAMBDA u : ~Inactive(u))
    /\ Quiet
    /\ UNCHANGED <<now, conn, rooms, matchVars, activeChats, joins, nJoins, tick, disc,
                   msgs, nEvents, pairedAtClose, budget, scored, bridgeVars, leaving, ended>>

\* ------------------------------------------------ the disconnect handler

\* The sessions s is in with a connected peer, both in the session's room and
\* the peer not yet told of a teardown, when the transport of s closes.
PairedWith(s) ==
    { x \in [room : RoomIds, peer : Sockets] :
        /\ x.peer # s
        /\ x.peer \in Open
        /\ \E m \in activeMatches : m.roomId = x.room /\ Members(m) = {s, x.peer}
        /\ {s, x.peer} \subseteq rooms[x.room]
        /\ teardowns[<<x.peer, x.room>>] = 0 }

\* The transport closes (Socket.IO takes the socket out of its rooms), and
\* socket.on("disconnect") runs to its first await.
Disconnect(s) ==
    /\ ~Micro
    /\ conn[s] = "open"
    /\ Cardinality({t \in Sockets : conn[t] = "closed"}) < budget.discs
    /\ conn' = [conn EXCEPT ![s] = "closed"]
    /\ rooms' = [r \in RoomIds |-> rooms[r] \ {s}]
    /\ pairedAtClose' = [pairedAtClose EXCEPT ![s] = PairedWith(s)]
    /\ IF socketUsers[s] # 0 /\ HasRecord(socketUsers[s])
       THEN /\ setUserOfflineMaps(socketUsers[s])
            /\ disc' = [disc EXCEPT ![s] = "d_io1"]
            /\ leaving' = [leaving EXCEPT ![s] = socketUsers[s]]
            /\ UNCHANGED matchVars
       ELSE /\ removeFromQueue(s)
            /\ disc' = [disc EXCEPT ![s] = "d_io2"]
            /\ UNCHANGED <<presenceVars, activeMatches, nextRoom, leaving>>
    /\ ended' = ended \cup UNION {EndedBy(s, r, "disconnect") : r \in RoomIds}
    /\ Quiet
    /\ UNCHANGED <<now, activeChats, joins, nJoins, tick, msgs, nEvents, budget, scored, bridgeVars, onlineOrder>>

\* after "await presenceService.handleSocketDisconnect": removeFromQueue to its await
DisconnectRemoveFromQueue(s) ==
    /\ ~TimerTurn
    /\ disc[s] = "d_io1"
    /\ removeFromQueue(s)
    /\ disc' = [disc EXCEPT ![s] = "d_io2"]
    /\ leaving' = [leaving EXCEPT ![s] = 0]
    /\ Announce({}, OfflineEvent(leaving[s]))
    /\ UNCHANGED <<now, conn, rooms, activeMatches, nextRoom, presenceVars, activeChats,
                   joins, nJoins, tick, msgs, nEvents, pairedAtClose, budget, scored, bridgeVars, onlineOrder, ended>>

\* after "await matchmakingService.removeFromQueue": "Notify any active chat partners"
DisconnectNotify(s) ==
    /\ ~TimerTurn
    /\ disc[s] = "d_io2"
    /\ disc' = [disc EXCEPT ![s] = "done"]
    /\ LET mine == {c \in activeChats : s \in Members(c)}
       IN  IF mine # {}
           THEN LET chat == CHOOSE c \in mine : TRUE
                IN  /\ Emit(Deliveries(s, chat.roomId, "stranger-disconnected"))
                    /\ activeChats' = activeChats \ {chat}
           ELSE /\ Quiet
                /\ UNCHANGED activeChats
    /\ UNCHANGED <<now, conn, rooms, matchVars, presenceVars, joins, nJoins, tick, msgs,
                   nEvents, pairedAtClose, budget, scored, bridgeVars, onlineOrder, leaving, ended>>

\* -------------------------------------------- chat, typing, signaling, control

\* A room id a client can name: one that was handed out.
Known(roomId) == roomId < nextRoom

\* socket.on("typing-start" | "typing-stop" | "webrtc-offer" | "webrtc-answer" |
\* "webrtc-ice-candidate")
Relay(s, roomId, ev) ==
    /\ ~Micro
    /\ conn[s] = "open"
    /\ Known(roomId)
    /\ nEvents < budget.events
    /\ nEvents' = nEvents + 1
    /\ Emit(Deliveries(s, roomId, Outgoing(ev)))
    /\ UNCHANGED <<now, conn, rooms, matchVars, presenceVars, activeChats, joins, nJoins,
                   tick, disc, msgs, pairedAtClose, budget, scored, bridgeVars, onlineOrder, leaving, ended>>

\* socket.on("leave-chat")
LeaveChat(s, roomId) ==
    /\ ~Micro
    /\ conn[s] = "open"
    /\ Known(roomId)
    /\ nEvents < budget.events
    /\ nEvents' = nEvents + 1
    /\ Emit(Deliveries(s, roomId, "stranger-disconnected"))
    /\ rooms' = [rooms EXCEPT ![roomId] = @ \ {s}]
    /\ activeChats' = {c \in activeChats : c.roomId # roomId}
    /\ ended' = ended \cup EndedBy(s, roomId, "leave")
    /\ UNCHANGED <<now, conn, matchVars, presenceVars, joins, nJoins, tick, disc, msgs,
                   pairedAtClose, budget, scored, bridgeVars, onlineOrder, leaving>>

\* socket.on("skip-chat")
SkipChat(s, roomId) ==
    /\ ~Micro
    /\ conn[s] = "open"
    /\ Known(roomId)
    /\ nEvents < budget.events
    /\ nEvents' = nEvents + 1
    /\ Emit(Deliveries(s, roomId, "finding-new-match"))
    /\ rooms' = [rooms EXCEPT ![roomId] = @ \ {s}]
    /\ activeChats' = {c \in activeChats : c.roomId # roomId}
    /\ ended' = ended \cup EndedBy(s, roomId, "skip")
    /\ UNCHANGED <<now, conn, matchVars, presenceVars, joins, nJoins, tick, disc, msgs,
                   pairedAtClose, budget, scored, bridgeVars, onlineOrder, leaving>>

\* updateUserActivity(socketId)
updateUserActivity(socketId) ==
    LET userId == socketUsers[socketId]
    IN  IF userId # 0 /\ HasRecord(userId)
        THEN [onlineUsers EXCEPT ![userId].lastActivity = now]
        ELSE onlineUsers

\* ------------------------------------------------------ moderateText

\* The chat messages a client may send.  None of them is longer than 500
\* characters or matches a spam pattern.
Texts == {"hello", "send money", "what a scam", "scam, send money", " "}

\* "Check for empty or very short content": !content || content.trim().length < 1
EmptyContent(content) == content = None \/ content = " "

\* filterProfanity(text).detected: the text holds a word of profanityWords
Profane(text) == text \in {"what a scam", "scam, send money"}

\* filterProfanity without the replacement.
filterProfanity_Unmasked(text) == text

\* filterProfanity(text).filtered: every such word replaced by asterisks
filterProfanity(text) ==
    IF text = "what a scam" THEN "what a ****"
    ELSE IF text = "scam, send money" THEN "****, send money"
    ELSE text

\* detectSuspiciousContent: the number of matches of the suspicious patterns
SuspiciousMatches(text) == IF text \in {"send money", "scam, send money"} THEN 1 ELSE 0

\* result.confidence in tenths: 0.8 for profanity, and
\* Math.min(matches * 0.2, 1.0) for suspicious content
Confidence(text) ==
    (IF Profane(text) THEN 8 ELSE 0) + Min(10, 2 * SuspiciousMatches(text))

\* result.flags
Flags(text) ==
    (IF Profane(text) THEN {"profanity"} ELSE {})
    \cup (IF SuspiciousMatches(text) > 0 THEN {"suspicious_keywords"} ELSE {})

\* The ModerationResult of moderateText(content, userId) when the rate limit
\* (10 messages a minute) is not reached: "Final decision" confidence > 0.8.
moderateText(content) ==
    IF EmptyContent(content)
    THEN [allowed |-> FALSE, filtered |-> content, flags |-> {"empty_content"}]
    ELSE [allowed |-> ~(Confidence(content) > 8),
          filtered |-> IF Profane(content) THEN filterProfanity(content) ELSE content,
          flags |-> Flags(content)]

\* The Redis round trips moderateText awaits one after the other: incr of the
\* rate key, expire when the key is new, and for a result that is not clean
\* the three calls of logViolation (violation counts stay below 5).
RoundTrips(content, fresh) ==
    IF EmptyContent(content) THEN 0
    ELSE 1 + (IF fresh THEN 1 ELSE 0)
           + (IF ~moderateText(content).allowed \/ moderateText(content).flags # {}
              THEN 3 ELSE 0)

\* ------------------------------------------------- the send-message handler

\* The data of a send-message event: room id 0, message None and user id 0
\* stand for a field that is missing.
MessageData == [roomId : RoomIds \cup {0}, message : Texts \cup {None}, userId : Users \cup {0}]

\* The validation that forgets the user id.
MissingFields_NoUserId(data) == data.message = None \/ data.roomId = 0

\* "if (!message || !userId || !roomId)"
MissingFields(data) == data.message = None \/ data.userId = 0 \/ data.roomId = 0

\* The send-message events socket s may send in this behaviour: of a room that
\* was handed out, under its own user id, and, when the clients may, with one
\* of the three fields missing.
MessagesOf(s) ==
    {[roomId |-> r, message |-> t, userId |-> s] :
        r \in {x \in RoomIds : Known(x)}, t \in budget.texts}
    \cup (IF budget.bad
          THEN {[roomId |-> 0, message |-> "hello", userId |-> s],
                [roomId |-> 1, message |-> None, userId |-> s],
                [roomId |-> 1, message |-> "hello", userId |-> 0]}
          ELSE {})

\* The request of socket s lacks a field that the handler requires.
Refused(s, data) ==
    IF data.message = None \/ data.userId = 0 \/ data.roomId = 0
    THEN [sock |-> s, ev |-> "send-message"]
    ELSE NoRequest

\* The send-message handler of socket s for event n, inside moderateText.
Pending(s, data, fresh, n) ==
    [n |-> n, sock |-> s, room |-> data.roomId, text |-> data.message,
     left |-> RoundTrips(data.message, fresh)]

\* The events of the handler once moderateText has returned result for the
\* message m, sent without the check of result.allowed.
Forwarded_Unchecked(m, result) ==
    MessageDeliveries(m.sock, m.room, m.n, result.filtered)
    \cup Direct(m.sock, m.room, "message-sent", m.sock)

\* The events of the handler once moderateText has returned result for the
\* message m: "message-blocked", or "receive-message" and "message-sent"
Forwarded(m, result) ==
    IF result.allowed
    THEN MessageDeliveries(m.sock, m.room, m.n, result.filtered)
         \cup Direct(m.sock, m.room, "message-sent", m.sock)
    ELSE Direct(m.sock, m.room, "message-blocked", m.sock)

\* socket.on("send-message") to the first Redis call of moderateText, or to
\* its end when there is none; whether the rate key of the user id is fresh
\* (new or expired) is the store's state.
SendMessage(s, data, fresh) ==
    /\ ~Micro
    /\ conn[s] = "open"
    /\ malformed' = Refused(s, data)
    /\ IF MissingFields(data)
       THEN /\ Sends(Direct(s, 0, "error", s))
            /\ UNCHANGED <<nEvents, onlineUsers, msgs>>
       ELSE /\ nEvents < budget.events
            /\ nEvents' = nEvents + 1
            /\ onlineUsers' = updateUserActivity(s)
            /\ IF RoundTrips(data.message, fresh) = 0
               THEN /\ Sends(Forwarded(Pending(s, data, fresh, nEvents + 1),
                                       moderateText(data.message)))
                    /\ UNCHANGED msgs
               ELSE /\ msgs' = Append(msgs, Pending(s, data, fresh, nEvents + 1))
                    /\ Sends({})
    /\ UNCHANGED <<now, conn, rooms, matchVars, userSockets, socketUsers, activeChats,
                   joins, nJoins, tick, disc, pairedAtClose, budget, scored, bridgeVars, onlineOrder, leaving, ended>>

\* A Redis reply reaches moderateText, which sends its next command: replies
\* come in the order of the commands.
ModerationReply ==
    /\ ~TimerTurn
    /\ msgs # <<>>
    /\ Head(msgs).left > 1
    /\ msgs' = Append(Tail(msgs), [Head(msgs) EXCEPT !.left = @ - 1])
    /\ Quiet
    /\ UNCHANGED <<now, conn, rooms, matchVars, presenceVars, activeChats, joins, nJoins,
                   tick, disc, nEvents, pairedAtClose, budget, scored, bridgeVars, onlineOrder, leaving, ended>>

\* after "await moderationService.moderateText": blocked, or forwarded
SendMessageForward ==
    /\ ~TimerTurn
    /\ msgs # <<>>
    /\ Head(msgs).left = 1
    /\ msgs' = Tail(msgs)
    /\ Emit(Forwarded(Head(msgs), moderateText(Head(msgs).text)))
    /\ UNCHANGED <<now, conn, rooms, matchVars, presenceVars, activeChats, joins, nJoins,
                   tick, disc, nEvents, pairedAtClose, budget, scored, bridgeVars, onlineOrder, leaving, ended>>

\* ------------------------------------------------------------------ Next

Next ==
    \/ AdvanceClock
    \/ \E s \in Sockets : \E r \in Requests(s) : JoinQueue(s, r.uid, r.data)
    \/ \E j \in joins : JoinSetOnline(j)
    \/ \E j \in joins : JoinAddToQueue(j)
    \/ \E j \in joins : JoinFindMatch(j)
    \/ \E j \in joins : JoinEnqueue(j)
    \/ \E j \in joins : JoinStoreMatch(j)
    \/ \E j \in joins : JoinNotify(j)
    \/ \E j \in joins : JoinNotifyVideo(j)
    \/ TickStart
    \/ TickStoreMatch
    \/ TickContinue
    \/ cleanupStaleEntries
    \/ cleanupInactiveUsers
    \/ \E s \in Sockets : Disconnect(s)
    \/ \E s \in Sockets : DisconnectRemoveFromQueue(s)
    \/ \E s \in Sockets : DisconnectNotify(s)
    \/ \E s \in Sockets, r \in RoomIds, ev \in RelayEvents : Relay(s, r, ev)
    \/ \E s \in Sockets, r \in RoomIds : LeaveChat(s, r)
    \/ \E s \in Sockets, r \in RoomIds : SkipChat(s, r)
    \/ \E s \in Sockets : \E d \in MessagesOf(s), fresh \in budget.fresh :
          SendMessage(s, d, fresh)
    \/ ModerationReply
    \/ SendMessageForward

Spec == Init /\ [][Next]_vars

\* ------------------------------ two participants, handlers that run on

\* Two connections, two join-queue requests, one chat mode.
LiveBudgets ==
    {[sockets |-> 2, joins |-> 2, events |-> 0, discs |-> 0, clock |-> 0, modes |-> {m},
      texts |-> {}, fresh |-> {FALSE}, bad |-> FALSE, shared |-> TRUE] : m \in ChatModes}

LiveInit == Connected /\ NothingScored /\ \E b \in LiveBudgets : InitWith(b)

LiveNext ==
    \/ \E s \in Sockets : \E r \in Requests(s) : JoinQueue(s, r.uid, r.data)
    \/ \E j \in joins : JoinSetOnline(j)
    \/ \E j \in joins : JoinAddToQueue(j)
    \/ \E j \in joins : JoinFindMatch(j)
    \/ \E j \in joins : JoinEnqueue(j)
    \/ \E j \in joins : JoinStoreMatch(j)
    \/ \E j \in joins : JoinNotify(j)
    \/ \E j \in joins : JoinNotifyVideo(j)
    \/ TickStart
    \/ TickStoreMatch
    \/ TickContinue

\* Every Redis and LiveKit call returns, every resolved await is resumed, and
\* setInterval keeps calling processWaitingQueue; the clients owe no request.
LiveSpec ==
    /\ LiveInit
    /\ [][LiveNext]_vars
    /\ WF_vars(\E j \in joins : JoinSetOnline(j))
    /\ WF_vars(\E j \in joins : JoinAddToQueue(j))
    /\ WF_vars(\E j \in joins : JoinFindMatch(j))
    /\ WF_vars(\E j \in joins : JoinEnqueue(j))
    /\ WF_vars(\E j \in joins : JoinStoreMatch(j))
    /\ WF_vars(\E j \in joins : JoinNotify(j))
    /\ WF_vars(\E j \in joins : JoinNotifyVideo(j))
    /\ WF_vars(TickStart)
    /\ WF_vars(TickStoreMatch)
    /\ WF_vars(TickContinue)

\* ------------------------------------------- the scans, on drawn waiting sets

\* The interests a waiting participant may have named.
ScanInterests == {{}, {"music"}, {"music", "art"}}

\* The profile routes.ts makes for socket s.
ScanProfile(s, mode, interests, t) ==
    [id |-> s, socketId |-> s, interests |-> interests, chatMode |-> mode,
     gender |-> None, genderPreference |-> None, countryPreference |-> None,
     location |-> NoLocation, language |-> None, verified |-> FALSE, joinedAt |-> t]

\* The waiting entries drawn: of every socket but the last, enqueued at time 0.
ScanEntries ==
    {ScanProfile(s, m, i, 0) : s \in 1..(MaxSockets - 1), m \in ChatModes, i \in ScanInterests}

\* The waiting sets drawn: at most one entry for a socket, in any order.
ScanQueues ==
    {q \in UNION {[1..n -> ScanEntries] : n \in 0..(MaxSockets - 1)} :
        \A i, k \in 1..Len(q) : i # k => q[i].socketId # q[k].socketId}

\* join-queue requests of the last socket, suspended in addToQueue at the
\* await of redisManager.setSession, count of them in flight.
ScanJoins(count, mode, interests, t) ==
    {[n |-> n, sock |-> MaxSockets, uid |-> MaxSockets,
      data |-> [chatMode |-> mode, interests |-> interests, gender |-> None,
                genderPreference |-> None],
      pc |-> "q_io", profile |-> ScanProfile(MaxSockets, mode, interests, t),
      match |-> NoMatch] : n \in 1..count}

\* Some participants wait, and the last socket has sent join-queue once or
\* twice in a row: its requests have passed the duplicate guard.
ScanInit ==
    \E q \in ScanQueues, count \in 1..2, m \in ChatModes, i \in ScanInterests,
       t \in {0, ClockStep} :
        /\ budget = [sockets |-> MaxSockets, joins |-> count, events |-> 0, discs |-> 0,
                     clock |-> 0, modes |-> ChatModes, texts |-> {}, fresh |-> {FALSE},
                     bad |-> FALSE, shared |-> TRUE]
        /\ now = t
        /\ conn = [s \in Sockets |-> "open"]
        /\ rooms = [r \in RoomIds |-> {}]
        /\ waitingQueue = q
        /\ activeMatches = {}
        /\ matchingInProgress = {}
        /\ nextRoom = 1
        /\ onlineUsers = [u \in Users |->
                             IF u = MaxSockets \/ QueueHas(q, u)
                             THEN [socketId |-> u, joinedAt |-> IF u = MaxSockets THEN t ELSE 0,
                                   lastActivity |-> IF u = MaxSockets THEN t ELSE 0]
                             ELSE NoRecord]
        /\ userSockets = [u \in Users |-> IF u = MaxSockets \/ QueueHas(q, u) THEN u ELSE 0]
        /\ socketUsers = [s \in Sockets |-> IF s = MaxSockets \/ QueueHas(q, s) THEN s ELSE 0]
        /\ activeChats = {}
        /\ joins = ScanJoins(count, m, i, t)
        /\ nJoins = count
        /\ tick = IdleTick
        /\ disc = [s \in Sockets |-> "none"]
        /\ msgs = <<>>
        /\ nEvents = 0
        /\ emitted = {}
        /\ teardowns = [p \in Sockets \X RoomIds |-> 0]
        /\ pairedAtClose = [s \in Sockets |-> {}]
        /\ found = {}
        /\ ended = {}
        /\ malformed = NoRequest
        /\ received = [s \in Sockets |-> <<>>]
        /\ presence = {}
        /\ leaving = [s \in Sockets |-> 0]
        /\ onlineOrder = <<>>
        /\ scored = NoScore
        /\ store = "available"
        /\ reply = NoReply

\* The requests in flight and the tick run on.
ScanNext ==
    \/ \E j \in joins : JoinFindMatch(j)
    \/ \E j \in joins : JoinEnqueue(j)
    \/ \E j \in joins : JoinStoreMatch(j)
    \/ \E j \in joins : JoinNotify(j)
    \/ \E j \in joins : JoinNotifyVideo(j)
    \/ TickStart
    \/ TickStoreMatch
    \/ TickContinue

ScanSpec == ScanInit /\ [][ScanNext]_vars

\* --------------------------------- the tick, on drawn waiting sets that change

\* The waiting entries drawn: of every socket, enqueued at time 0.
TickEntries == {ScanProfile(s, m, {}, 0) : s \in Sockets, m \in ChatModes}

\* The waiting sets drawn: at most one entry for a socket, in any order.
TickQueues ==
    {q \in UNION {[1..n -> TickEntries] : n \in 0..MaxSockets} :
        \A i, k \in 1..Len(q) : i # k => q[i].socketId # q[k].socketId}

\* At most one join-queue request, of any socket, that has passed the duplicate
\* guard and is suspended in addToQueue at the await of redisManager.setSession.
TickJoins ==
    {{}} \cup
    {{[n |-> 1, sock |-> s, uid |-> s,
       data |-> [chatMode |-> m, interests |-> {}, gender |-> None, genderPreference |-> None],
       pc |-> "q_io", profile |-> ScanProfile(s, m, {}, 0), match |-> NoMatch]} :
        s \in Sockets, m \in ChatModes}

\* Some participants wait and at most one request is in flight; connections
\* close while the tick and the request run on.
TickInit ==
    \E q \in TickQueues, js \in TickJoins :
        /\ budget = [sockets |-> MaxSockets, joins |-> Cardinality(js), events |-> 0,
                     discs |-> MaxDisconnects, clock |-> 0, modes |-> ChatModes,
                     texts |-> {}, fresh |-> {FALSE}, bad |-> FALSE, shared |-> TRUE]
        /\ now = 0
        /\ conn = [s \in Sockets |-> "open"]
        /\ rooms = [r \in RoomIds |-> {}]
        /\ waitingQueue = q
        /\ activeMatches = {}
        /\ matchingInProgress = {}
        /\ nextRoom = 1
        /\ onlineUsers = [u \in Users |->
                             IF QueueHas(q, u) \/ (\E j \in js : j.sock = u)
                             THEN [socketId |-> u, joinedAt |-> 0, lastActivity |-> 0]
                             ELSE NoRecord]
        /\ userSockets = [u \in Users |->
                             IF QueueHas(q, u) \/ (\E j \in js : j.sock = u) THEN u ELSE 0]
        /\ socketUsers = [s \in Sockets |->
                             IF QueueHas(q, s) \/ (\E j \in js : j.sock = s) THEN s ELSE 0]
        /\ activeChats = {}
        /\ joins = js
        /\ nJoins = Cardinality(js)
        /\ tick = IdleTick
        /\ disc = [s \in Sockets |-> "none"]
        /\ msgs = <<>>
        /\ nEvents = 0
        /\ emitted = {}
        /\ teardowns = [p \in Sockets \X RoomIds |-> 0]
        /\ pairedAtClose = [s \in Sockets |-> {}]
        /\ found = {}
        /\ ended = {}
        /\ malformed = NoRequest
        /\ received = [s \in Sockets |-> <<>>]
        /\ presence = {}
        /\ leaving = [s \in Sockets |-> 0]
        /\ onlineOrder = <<>>
        /\ scored = NoScore
        /\ store = "available"
        /\ reply = NoReply

TickNext ==
    \/ \E j \in joins : JoinFindMatch(j)
    \/ \E j \in joins : JoinEnqueue(j)
    \/ \E j \in joins : JoinStoreMatch(j)
    \/ \E j \in joins : JoinNotify(j)
    \/ \E j \in joins : JoinNotifyVideo(j)
    \/ TickStart
    \/ TickStoreMatch
    \/ TickContinue
    \/ \E s \in Sockets : Disconnect(s)
    \/ \E s \in Sockets : DisconnectRemoveFromQueue(s)
    \/ \E s \in Sockets : DisconnectNotify(s)

TickSpec == TickInit /\ [][TickNext]_vars

\* ------------------------------------------- the Redis bridge, redis.ts

\* The Redis connection: connected, never configured (no REDIS_URL, redis is
\* null), not connected (isConnected is false), or connected while the
\* command is rejected.
StoreStates == {"available", "unconfigured", "disconnected", "failing"}

\* "if (!this.isConnected || !this.redis) return ..."
Guarded(st) == st \in {"unconfigured", "disconnected"}

\* The call of op returns value; the values are written as JavaScript writes
\* them.
Returned(op, value) == [op |-> op, raised |-> FALSE, value |-> value]

\* The call of op rejects.
Thrown(op) == [op |-> op, raised |-> TRUE, value |-> None]

\* A catch block that throws the error on.
Caught_Rethrown(op, fallback) == Thrown(op)

\* "catch (error) { log(...); return fallback; }"
Caught(op, fallback) == Returned(op, fallback)

\* A bridge operation: the guard, the command in its try block, the catch.
Bridge(op, st, fallback, value) ==
    IF Guarded(st) THEN Returned(op, fallback)
    ELSE IF st = "failing" THEN Caught(op, fallback)
    ELSE Returned(op, value)

setSession(st) == Bridge("redis.setSession", st, "false", "true")

\* data is what the store holds under the key, "null" when nothing
getSession(st, data) == Bridge("redis.getSession", st, "null", data)

deleteSession(st) == Bridge("redis.deleteSession", st, "false", "true")

\* A rate limit that denies the request when the store gives no answer.
checkRateLimit_FailClosed(st, current, limit) ==
    Bridge("redis.checkRateLimit", st, "false", IF current <= limit THEN "true" ELSE "false")

\* current is what incr returns
checkRateLimit(st, current, limit) ==
    Bridge("redis.checkRateLimit", st, "true", IF current <= limit THEN "true" ELSE "false")

redisSetUserOnline(st) == Bridge("redis.setUserOnline", st, "undefined", "undefined")

redisSetUserOffline(st) == Bridge("redis.setUserOffline", st, "undefined", "undefined")

incrementRoomStats(st) == Bridge("redis.incrementRoomStats", st, "undefined", "undefined")

\* checkUserMessageRate: "Allow 10 messages per minute"
RateLimit == 10

\* The counts incr may return to checkUserMessageRate.
RateCounts == {1, RateLimit, RateLimit + 1}

\* The bridge calls the services make.
BridgeCalls(st) ==
    {setSession(st), deleteSession(st), redisSetUserOnline(st), redisSetUserOffline(st),
     incrementRoomStats(st)}
    \cup {getSession(st, data) : data \in {"null", "3"}}
    \cup {checkRateLimit(st, current, RateLimit) : current \in RateCounts}

\* ------------------------------- the service operations, run to their end

\* A service operation is called on its own and runs to its end before the
\* next event is handled; it delivers nothing and broadcasts ps.
Called(result, ps) ==
    /\ reply' = result
    /\ store' = store
    /\ Announce({}, ps)
    /\ UNCHANGED <<now, conn, rooms, activeChats, joins, nJoins, tick, disc, msgs, nEvents,
                   pairedAtClose, budget, scored, leaving, ended>>

\* A bridge operation is called on its own.
BridgeCall(result) ==
    /\ Called(result, {})
    /\ UNCHANGED <<matchVars, presenceVars, onlineOrder>>

\* The profile of the user of socket s, who joins now.
ProfileOf(s, d) == userProfile(Task(0, s, s, d, "q_io"))

\* addToQueue(profile) from call to return, the store in state st: an
\* exception of a bridge call leaves the method where it was raised.
addToQueue(profile, st) ==
    LET best == findMatch(profile, waitingQueue, matchingInProgress, now)
    IN  IF QueueHas(waitingQueue, profile.socketId)
           \/ profile.socketId \in matchingInProgress
        THEN /\ Called(Returned("addToQueue", "null"), {})
             /\ UNCHANGED <<matchVars, presenceVars, onlineOrder>>
        ELSE IF setSession(st).raised
        THEN /\ Called(Thrown("addToQueue"), {})
             /\ UNCHANGED <<matchVars, presenceVars, onlineOrder>>
        ELSE IF best.profile # NoProfile
        THEN /\ nextRoom <= MaxRooms
             /\ nextRoom' = nextRoom + 1
             /\ matchingInProgress' =
                    matchingInProgress \cup {profile.socketId, best.profile.socketId}
             /\ waitingQueue' = SeqRemove(SeqRemove(waitingQueue, profile.socketId),
                                          best.profile.socketId)
             /\ IF deleteSession(st).raised
                THEN /\ Called(Thrown("addToQueue"), {})
                     /\ UNCHANGED activeMatches
                ELSE /\ activeMatches' =
                            activeMatches \cup {createMatch(profile, best, nextRoom)}
                     /\ Called(IF setSession(st).raised \/ incrementRoomStats(st).raised
                               THEN Thrown("addToQueue")
                               ELSE Returned("addToQueue", "match"), {})
             /\ UNCHANGED <<presenceVars, onlineOrder>>
        ELSE /\ waitingQueue' = QueueSet(waitingQueue, profile)
             /\ Called(Returned("addToQueue", "null"), {})
             /\ UNCHANGED <<activeMatches, matchingInProgress, nextRoom, presenceVars,
                            onlineOrder>>

\* removeFromQueue(socketId) from call to return
dequeue(socketId, st) ==
    /\ removeFromQueue(socketId)
    /\ Called(IF deleteSession(st).raised THEN Thrown("removeFromQueue")
              ELSE Returned("removeFromQueue", "undefined"), {})
    /\ UNCHANGED <<activeMatches, nextRoom, presenceVars, onlineOrder>>

\* The keys of a Map after delete(userId).
Without(order, userId) == SelectSeq(order, LAMBDA u : u # userId)

\* setUserOffline(userId) from call to return
setUserOffline(userId, st) ==
    /\ IF ~HasRecord(userId)
       THEN /\ Called(Returned("setUserOffline", "undefined"), {})
            /\ UNCHANGED <<presenceVars, onlineOrder>>
       ELSE /\ setUserOfflineMaps(userId)
            /\ onlineOrder' = Without(onlineOrder, userId)
            /\ IF redisSetUserOffline(st).raised
               THEN Called(Thrown("setUserOffline"), {})
               ELSE Called(Returned("setUserOffline", "undefined"), OfflineEvent(userId))
    /\ UNCHANGED matchVars

\* setUserOnline(userId, socketId) from call to return
setUserOnline(userId, socketId, st) ==
    LET before == IF HasRecord(userId) THEN OfflineEvent(userId) ELSE {}
        socketId0 == userSockets[userId]
        cleared == IF HasRecord(userId) /\ socketId0 # 0
                   THEN [socketUsers EXCEPT ![socketId0] = 0]
                   ELSE socketUsers
    IN  /\ IF HasRecord(userId) /\ redisSetUserOffline(st).raised
           THEN /\ setUserOfflineMaps(userId)
                /\ onlineOrder' = Without(onlineOrder, userId)
                /\ Called(Thrown("setUserOnline"), {})
           ELSE /\ onlineOrder' = Append(Without(onlineOrder, userId), userId)
                /\ onlineUsers' = [onlineUsers EXCEPT ![userId] =
                       [socketId |-> socketId, joinedAt |-> now, lastActivity |-> now]]
                /\ userSockets' = [userSockets EXCEPT ![userId] = socketId]
                /\ socketUsers' = [cleared EXCEPT ![socketId] = userId]
                /\ IF redisSetUserOnline(st).raised
                   THEN Called(Thrown("setUserOnline"), before)
                   ELSE Called(Returned("setUserOnline", "undefined"),
                               before \cup OnlineEvent(userId))
        /\ UNCHANGED matchVars

\* The 'connect' and 'error' events of a configured connection, and commands
\* that begin or cease to be rejected.
StoreEvent(st) ==
    /\ store # "unconfigured"
    /\ st # "unconfigured"
    /\ store' = st
    /\ reply' = NoReply
    /\ Quiet
    /\ UNCHANGED <<now, conn, rooms, matchVars, presenceVars, activeChats, joins, nJoins,
                   tick, disc, msgs, nEvents, pairedAtClose, budget, scored, leaving, ended,
                   onlineOrder>>

\* The userData of the profiles that are enqueued: of the chat modes of the
\* environment.
StoreDatas == {d \in UserDatas : d.chatMode \in budget.modes}

\* Connections whose services are called one operation at a time.
StoreBudgets ==
    {[sockets |-> 2, joins |-> 0, events |-> 0, discs |-> 0, clock |-> 0,
      modes |-> {"text"}, texts |-> {}, fresh |-> {FALSE}, bad |-> FALSE, shared |-> TRUE]}

\* The state after construction, with Redis configured or not.
StoreInit ==
    /\ NothingScored
    /\ \E b \in StoreBudgets : InitWith(b)
    /\ store \in {"available", "unconfigured"}
    /\ reply = NoReply

StoreNext ==
    \/ \E st \in StoreStates : StoreEvent(st)
    \/ \E result \in BridgeCalls(store) : BridgeCall(result)
    \/ \E s \in Open, d \in StoreDatas : addToQueue(ProfileOf(s, d), store)
    \/ \E s \in Open : dequeue(s, store)
    \/ \E s \in Open : \E u \in UserIdsOf(s) : setUserOnline(u, s, store)
    \/ \E s \in Open : \E u \in UserIdsOf(s) : setUserOffline(u, store)

StoreSpec == StoreInit /\ [][StoreNext]_vars

\* ------------------------------------------------- the list of online users

\* The tags and the country a user registers with (userData.interests and
\* userData.country of its join-queue requests).
UserTags(u) == IF u = 1 THEN {"music"} ELSE IF u = 2 THEN {"music", "art"} ELSE {"art"}
UserCountry(u) == IF u = 1 THEN "IN" ELSE IF u = 2 THEN "US" ELSE AnyOnEarth

\* getOnlineUsers(): Array.from(this.onlineUsers.values()), as user ids
getOnlineUsers == onlineOrder

\* getOnlineUsersByTags(tags)
getOnlineUsersByTags(tags) ==
    SelectSeq(getOnlineUsers, LAMBDA u : UserTags(u) \cap tags # {})

\* getOnlineUsersByCountry(country)
getOnlineUsersByCountry(country) ==
    SelectSeq(getOnlineUsers, LAMBDA u : UserCountry(u) = country \/ country = AnyOnEarth)

\* The filters the lists are asked with.
TagFilters == {{"music"}, {"art"}, {"music", "art"}, {"sports"}}
CountryFilters == {"IN", "US", AnyOnEarth}

\* Three connections whose presence operations are called one at a time while
\* the clock moves on.
ListBudgets ==
    {[sockets |-> MaxSockets, joins |-> 0, events |-> 0, discs |-> 0, clock |-> MaxClockSteps,
      modes |-> {"text"}, texts |-> {}, fresh |-> {FALSE}, bad |-> FALSE, shared |-> TRUE]}

ListInit == Connected /\ NothingScored /\ \E b \in ListBudgets : InitWith(b)

ListNext ==
    \/ AdvanceClock
    \/ \E s \in Open : \E u \in UserIdsOf(s) : setUserOnline(u, s, store)
    \/ \E s \in Open : \E u \in UserIdsOf(s) : setUserOffline(u, store)
    \/ cleanupInactiveUsers

ListSpec == ListInit /\ [][ListNext]_vars

\* ------------------------------------------------- the scorer, on its own

ScoreTags == {"music", "art", "film", "food", "golf"}

\* The first profile of a scored pair: every optional field absent or present.
ScoreUsers1 ==
    {[id |-> 1, socketId |-> 1, interests |-> i, chatMode |-> m, gender |-> g,
      genderPreference |-> gp, countryPreference |-> cp, location |-> l,
      language |-> lang, verified |-> v, joinedAt |-> t] :
        i \in {{}, {"music"}, {"music", "art"}, {"music", "art", "film"},
               {"music", "art", "film", "food"}, ScoreTags},
        m \in ChatModes, g \in {None, "male"}, gp \in {None, "female"},
        cp \in {None, AnyOnEarth, "IN"},
        l \in {NoLocation, [country |-> "US", timezone |-> "EST"],
               [country |-> "CA", timezone |-> "EST"], [country |-> "IN", timezone |-> "IST"]},
        lang \in {None, "en", "hi"}, v \in BOOLEAN, t \in {0, ClockStep - 1, ClockStep}}

\* The second profile: a verified participant in text mode who names every tag.
ScoreUsers2 ==
    {[id |-> 2, socketId |-> 2, interests |-> ScoreTags, chatMode |-> "text",
      gender |-> "female", genderPreference |-> gp, countryPreference |-> cp,
      location |-> [country |-> "US", timezone |-> "EST"], language |-> "en",
      verified |-> TRUE, joinedAt |-> t] :
        gp \in {None, "male"}, cp \in {None, "IN", "US"}, t \in {0, ClockStep}}

\* No connection makes a request: the clock moves on between the calls.
ScoreBudgets ==
    {[sockets |-> 2, joins |-> 0, events |-> 0, discs |-> 0, clock |-> 1,
      modes |-> ChatModes, texts |-> {}, fresh |-> {FALSE}, bad |-> FALSE, shared |-> TRUE]}

ScoreInit ==
    /\ Connected
    /\ \E b \in ScoreBudgets : InitWith(b)
    /\ \E user1 \in ScoreUsers1, user2 \in ScoreUsers2 :
           scored = [user1 |-> user1, user2 |-> user2, t |-> 0, result |-> NoResult]

\* calculateCompatibility(user1, user2) is called, at time Date.now().
Scores ==
    /\ scored.result = NoResult
    /\ scored' = [scored EXCEPT !.t = now,
                                !.result = calculateCompatibility(scored.user1, scored.user2, now)]
    /\ UNCHANGED <<now, conn, rooms, matchVars, presenceVars, activeChats, joins, nJoins, tick,
                   disc, msgs, nEvents, emitted, teardowns, pairedAtClose, found, budget,
                   ended, malformed, received, presence, leaving, bridgeVars, onlineOrder>>

ScoreNext == AdvanceClock \/ Scores

ScoreSpec == ScoreInit /\ [][ScoreNext]_vars

\* --------------------------------------- the timers, with time passing

\* Two connections that ask for a text chat and wait while the clock moves
\* past both thresholds.
SweepBudgets ==
    {[sockets |-> 2, joins |-> 2, events |-> 0, discs |-> 0, clock |-> MaxClockSteps,
      modes |-> {"text"}, texts |-> {}, fresh |-> {FALSE}, bad |-> FALSE, shared |-> TRUE]}

SweepInit == Connected /\ NothingScored /\ \E b \in SweepBudgets : InitWith(b)

SweepNext ==
    \/ AdvanceClock
    \/ \E s \in Sockets : \E r \in Requests(s) : JoinQueue(s, r.uid, r.data)
    \/ \E j \in joins : JoinSetOnline(j)
    \/ \E j \in joins : JoinAddToQueue(j)
    \/ \E j \in joins : JoinFindMatch(j)
    \/ \E j \in joins : JoinEnqueue(j)
    \/ \E j \in joins : JoinStoreMatch(j)
    \/ \E j \in joins : JoinNotify(j)
    \/ TickStart
    \/ TickStoreMatch
    \/ TickContinue
    \/ cleanupStaleEntries
    \/ cleanupInactiveUsers

\* Every Redis call returns, every resolved await is resumed, and
\* the three setInterval timers of the constructors keep firing: a sweep is
\* held back only while the microtasks of a handler run, so it fires when it
\* is due again and again (strong fairness).  The clients owe no request, and
\* the clock may stand still.
SweepSpec ==
    /\ SweepInit
    /\ [][SweepNext]_vars
    /\ WF_vars(\E j \in joins : JoinSetOnline(j))
    /\ WF_vars(\E j \in joins : JoinAddToQueue(j))
    /\ WF_vars(\E j \in joins : JoinFindMatch(j))
    /\ WF_vars(\E j \in joins : JoinEnqueue(j))
    /\ WF_vars(\E j \in joins : JoinStoreMatch(j))
    /\ WF_vars(\E j \in joins : JoinNotify(j))
    /\ WF_vars(TickStart)
    /\ WF_vars(TickStoreMatch)
    /\ WF_vars(TickContinue)
    /\ SF_vars(cleanupStaleEntries)
    /\ SF_vars(cleanupInactiveUsers)

\* Two connections, one of which may repeat its request, and the timers.
StaleBudgets ==
    {[sockets |-> 2, joins |-> 3, events |-> 0, discs |-> 0, clock |-> MaxClockSteps,
      modes |-> {"text"}, texts |-> {}, fresh |-> {FALSE}, bad |-> FALSE, shared |-> TRUE]}

StaleInit == Connected /\ NothingScored /\ \E b \in StaleBudgets : InitWith(b)

StaleSpec == StaleInit /\ [][SweepNext]_vars

\* ------------------------------------------ a conversation, with time passing

\* Two connections that ask for a text chat and then send typing and
\* signaling events and chat messages: messages of every kind, or well-formed
\* and malformed requests while the clock moves past the inactivity timeout.
ChatBudgets ==
    {[sockets |-> 2, joins |-> 2, events |-> MaxEvents, discs |-> 0, clock |-> 0,
      modes |-> {"text"}, texts |-> Texts, fresh |-> BOOLEAN, bad |-> FALSE, shared |-> TRUE],
     [sockets |-> 2, joins |-> 2, events |-> MaxEvents, discs |-> 0, clock |-> 1,
      modes |-> {"text"}, texts |-> {"hello"}, fresh |-> {FALSE}, bad |-> TRUE, shared |-> TRUE]}

ChatInit == Connected /\ NothingScored /\ \E b \in ChatBudgets : InitWith(b)

ChatNext ==
    \/ AdvanceClock
    \/ \E s \in Sockets : \E r \in Requests(s) : JoinQueue(s, r.uid, r.data)
    \/ \E j \in joins : JoinSetOnline(j)
    \/ \E j \in joins : JoinAddToQueue(j)
    \/ \E j \in joins : JoinFindMatch(j)
    \/ \E j \in joins : JoinEnqueue(j)
    \/ \E j \in joins : JoinStoreMatch(j)
    \/ \E j \in joins : JoinNotify(j)
    \/ TickStart
    \/ TickStoreMatch
    \/ TickContinue
    \/ cleanupInactiveUsers
    \/ \E s \in Sockets, r \in RoomIds, ev \in RelayEvents : Relay(s, r, ev)
    \/ \E s \in Sockets : \E d \in MessagesOf(s), fresh \in budget.fresh :
          SendMessage(s, d, fresh)
    \/ ModerationReply
    \/ SendMessageForward

ChatSpec == ChatInit /\ [][ChatNext]_vars

\* ================================================================ the claims

\* The events a relay handler forwards to a room.
RelayedEvents ==
    {"receive-message", "user-typing", "webrtc-offer", "webrtc-answer",
     "webrtc-ice-candidate", "stranger-disconnected", "finding-new-match"}

HasPresence(s) == \E u \in Users : HasRecord(u) /\ onlineUsers[u].socketId = s

\* C1: no connection id is a member of two sessions of activeMatches at the
\* same time.
C1_AtMostOneSession ==
    \A m1, m2 \in activeMatches : m1 # m2 => Members(m1) \cap Members(m2) = {}

\* C2: every session of activeMatches has exactly two member connection ids,
\* user1.socketId and user2.socketId, and the two are distinct.
C2_TwoDistinctMembers ==
    \A m \in activeMatches :
        /\ m.user1.socketId \in Sockets
        /\ m.user2.socketId \in Sockets
        /\ Cardinality(Members(m)) = 2

\* A session exists that a scan made for a participant that was itself in the
\* waiting set when it was scanned (a session made by the tick).
C2_Witness ==
    /\ tick.pc = "t_cm_io2"
    /\ tick.match \in activeMatches

\* C3: both members of every live session have a live presence record.
C3_MembersHavePresence ==
    \A m \in activeMatches : \A s \in Members(m) : HasPresence(s)

\* The profiles that are waiting or carried by a join-queue request in flight.
LiveProfiles ==
    {waitingQueue[i] : i \in 1..Len(waitingQueue)}
    \cup {j.profile : j \in {k \in joins : k.profile # NoProfile}}

\* The sessions that are stored or being created.
AllMatches ==
    activeMatches \cup {j.match : j \in {k \in joins : k.match # NoMatch}}
    \cup (IF tick.match # NoMatch THEN {tick.match} ELSE {})

\* C4: two participants whose chatMode differs score 0 at any time, and no
\* session, stored or being created by an enqueue or by the tick, has members
\* of different chat modes.
C4_ChatModeHardConstraint ==
    /\ \A m \in AllMatches : m.user1.chatMode = m.user2.chatMode
    /\ \A p, q \in LiveProfiles :
           p.chatMode # q.chatMode =>
               \A t \in {now, now + ClockStep, now + 2 * StaleThreshold} :
                   calculateCompatibility(p, q, t).compatibility = 0

\* Two participants of different chat modes are waiting, have waited long
\* enough for the full wait bonus, and the tick has just scanned one of them.
C4_Witness ==
    /\ tick.pc = "t_mu"
    /\ Len(waitingQueue) = 2
    /\ waitingQueue[1].chatMode # waitingQueue[2].chatMode
    /\ now - waitingQueue[1].joinedAt >= 2 * WaitBonusSpan
    /\ now - waitingQueue[2].joinedAt >= 2 * WaitBonusSpan

\* C5: when the disconnect handling of B is complete, every connected A that
\* was paired with B when B's transport closed has received a teardown
\* notification (stranger-disconnected) for their session.
C5_PeerNotifiedOfDisconnect ==
    \A s \in Sockets :
        disc[s] = "done" =>
            \A x \in pairedAtClose[s] :
                conn[x.peer] = "open" => teardowns[<<x.peer, x.room>>] >= 1

\* C6: when the disconnect handling of a connection is complete, no session of
\* activeMatches has that connection as a member.
C6_NoSessionAfterDisconnect ==
    \A s \in Sockets :
        disc[s] = "done" => \A m \in activeMatches : s \notin Members(m)

\* C7: when the disconnect handling of a connection is complete, the
\* connection has no entry in the waiting set.
C7_NoWaitingEntryAfterDisconnect ==
    \A s \in Sockets : disc[s] = "done" => ~QueueHas(waitingQueue, s)

\* C8: an event is forwarded to a room only when its sender is a member of the
\* session of that room.
C8_OnlyMembersRelay ==
    \A e \in emitted :
        e.ev \in RelayedEvents =>
            \E m \in SessionsOf(e.room) : e.from \in Members(m)

\* C9: an event forwarded for a session on behalf of one of its members is
\* delivered to the other member only: not to the sender, and not to a
\* connection that is no member of the session.
C9_DeliveredToPeerOnly ==
    \A e \in emitted :
        e.ev \in RelayedEvents =>
            \A m \in SessionsOf(e.room) :
                e.from \in Members(m) => e.to \in Members(m) \ {e.from}

\* A chat message of a member of a session has just been delivered to the
\* other member.
C9_Witness ==
    \E e \in emitted :
        /\ e.ev = "receive-message"
        /\ \E m \in SessionsOf(e.room) : e.from \in Members(m) /\ e.to \in Members(m)

\* C10: a connected member receives at most one teardown notification
\* (stranger-disconnected or finding-new-match) for one session.
C10_AtMostOneTeardown ==
    \A p \in Sockets \X RoomIds : teardowns[p] <= 1


\* The sessions whose ending by a member that had been sent match-found is
\* complete: a leave-chat or skip-chat handler has run, or the disconnect
\* handler has run to its end.
Ended ==
    {x \in ended :
        /\ <<x.by, x.room>> \in found
        /\ x.how = "disconnect" => disc[x.by] = "done"}

\* C11: once a member has ended a session (leave-chat, skip-chat, or its
\* disconnect), activeMatches holds no record of the session, and neither
\* member is still marked mid-pairing on its account (a member that is marked
\* is a member of another session), so that its next join-queue is admitted.
C11_EndReleasesSessionAndMarks ==
    \A x \in Ended :
        /\ SessionsOf(x.room) = {}
        /\ \A s \in {x.by, x.peer} :
               s \in matchingInProgress =>
                   \E m \in AllMatches : m.roomId # x.room /\ s \in Members(m)

\* C12: after a skip-chat of member A the session is ended, and A, while
\* connected, is back in matching: in the waiting set, in a join-queue request
\* in flight, or in a new session.
C12_SkipRequeuesInitiator ==
    \A x \in Ended :
        x.how = "skip" =>
            /\ SessionsOf(x.room) = {}
            /\ x.by \in Open =>
                   \/ QueueHas(waitingQueue, x.by)
                   \/ \E j \in joins : j.sock = x.by
                   \/ \E m \in AllMatches : m.roomId # x.room /\ x.by \in Members(m)

\* C13: a step of addToQueue for a connection id that is in the waiting set or
\* marked mid-pairing returns null (the handler answers waiting-for-match and
\* ends) and leaves waitingQueue, matchingInProgress and activeMatches as
\* they were.
C13_DuplicateIsNoOp ==
    [][\A j \in joins :
          (/\ j.pc = "on_io"
           /\ j \notin joins'
           /\ \/ j.sock \in matchingInProgress
              \/ \E i \in 1..Len(waitingQueue) : waitingQueue[i].socketId = j.sock)
          => /\ UNCHANGED matchVars
             /\ \A k \in joins' : k.n # j.n
             /\ emitted' = Direct(j.sock, 0, "waiting-for-match", j.sock)]_vars

\* A join-queue request of a connection that is marked mid-pairing, and is a
\* member of a session, has just been answered waiting-for-match without
\* being put in the waiting set.
C13_Witness ==
    \E e \in emitted :
        /\ e.ev = "waiting-for-match"
        /\ e.to \in matchingInProgress
        /\ ~QueueHas(waitingQueue, e.to)
        /\ \E m \in activeMatches : e.to \in Members(m)

\* C15: no connection id is both in the waiting set and marked mid-pairing.
C15_WaitingAndMarkedDisjoint ==
    \A s \in Sockets : ~(QueueHas(waitingQueue, s) /\ s \in matchingInProgress)

\* The sessions whose members are marked and out of the waiting set, and that
\* are not yet recorded in activeMatches.
PendingCreations ==
    {j.match : j \in {k \in joins : k.pc = "cm_io1"}}
    \cup (IF tick.pc = "t_cm_io1" THEN {tick.match} ELSE {})

\* C16: a step of the program (not the passing of time) taken in a state where
\* a session is being created (its members marked and out of the waiting set,
\* the session not recorded) is the step that records that session: no other
\* operation runs in such a state.
C16_CreationIsAtomic ==
    [][now' = now => \A m \in PendingCreations : m \in activeMatches']_vars

C18_TickPairsCompatibleEntries ==
    [][(tick.pc # "idle" /\ tick'.pc = "idle") =>
          \A i, k \in 1..Len(tick.snapshot) :
              (/\ i # k
               /\ \E n \in 1..Len(waitingQueue') : waitingQueue'[n] = tick.snapshot[i]
               /\ \E n \in 1..Len(waitingQueue') : waitingQueue'[n] = tick.snapshot[k])
              => calculateCompatibility(tick.snapshot[i], tick.snapshot[k], now).compatibility
                     <= Threshold]_vars

\* The sessions whose creation, by a join-queue handler or by the tick, is over.
Created ==
    {m \in activeMatches :
        /\ \A j \in joins : j.match # m
        /\ tick.match # m}

\* C20: once a session is created, each member that is connected and has not
\* itself left the session has been sent match-found with the session's room
\* id and is in the session's room.
C20_MembersNotifiedAndRegistered ==
    \A m \in Created :
        \A s \in Members(m) \cap Open :
            (\A x \in ended : ~(x.room = m.roomId /\ x.by = s))
                => /\ <<s, m.roomId>> \in found
                   /\ s \in rooms[m.roomId]


\* The entries of waiting set q a scan for target may pick: not marked
\* mid-pairing, not the target's own, compatibility above the threshold.
Eligible(target, q, inProgress, t) ==
    {i \in 1..Len(q) :
        /\ q[i].socketId \notin inProgress
        /\ q[i].socketId # target.socketId
        /\ calculateCompatibility(target, q[i], t).compatibility > Threshold}

\* match pairs target with an eligible entry of q of the greatest compatibility.
PairsWithBest(match, target, q, inProgress, t) ==
    /\ match.user1 = target
    /\ \E i \in Eligible(target, q, inProgress, t) :
           /\ match.user2 = q[i]
           /\ match.compatibility = calculateCompatibility(target, q[i], t).compatibility
    /\ \A k \in Eligible(target, q, inProgress, t) :
           calculateCompatibility(target, q[k], t).compatibility <= match.compatibility

\* C14: a scan, of addToQueue or of the tick, pairs its participant with an
\* eligible waiting entry whose compatibility is above the threshold and the
\* greatest of all eligible entries; when there is no eligible entry it pairs
\* nobody and changes nothing, and the enqueuing participant is then put in
\* the waiting set.
C14_ScanPicksBest ==
    [][/\ \A j \in joins :
              (j.pc = "q_io" /\ j \notin joins') =>
                  \E k \in joins' :
                      /\ k.n = j.n
                      /\ IF Eligible(j.profile, waitingQueue, matchingInProgress, now) = {}
                         THEN k.pc = "nm_mu" /\ k.match = NoMatch /\ UNCHANGED matchVars
                         ELSE /\ k.pc = "cm_io1"
                              /\ PairsWithBest(k.match, j.profile, waitingQueue,
                                               matchingInProgress, now)
       /\ \A j \in joins :
              (j.pc = "nm_mu" /\ j \notin joins') =>
                  \E i \in 1..Len(waitingQueue') : waitingQueue'[i] = j.profile
       /\ (tick' # tick /\ tick'.pc = "t_cm_io1") =>
              PairsWithBest(tick'.match, tick'.snapshot[tick'.idx], waitingQueue,
                            matchingInProgress, now)
       /\ (tick' # tick /\ tick'.pc = "t_mu") =>
              /\ Eligible(tick'.snapshot[tick'.idx], waitingQueue, matchingInProgress, now) = {}
              /\ UNCHANGED matchVars]_vars

\* A scan of addToQueue has paired its participant while an unmarked entry of
\* a lower compatibility, above the threshold, stays in the waiting set.
C14_Witness ==
    \E j \in joins :
        /\ j.pc = "cm_io1"
        /\ \E i \in 1..Len(waitingQueue) :
               /\ waitingQueue[i].socketId \notin matchingInProgress
               /\ calculateCompatibility(j.profile, waitingQueue[i], now).compatibility
                      > Threshold
               /\ calculateCompatibility(j.profile, waitingQueue[i], now).compatibility
                      < j.match.compatibility

\* Connections 1 and 2 have each sent one of the two join-queue requests.
BothEnqueued == nJoins = 2 /\ socketUsers[1] # 0 /\ socketUsers[2] # 0

\* A session of exactly connections 1 and 2, matched on chat mode and interests.
SessionOfBoth(m) ==
    /\ Members(m) = {1, 2}
    /\ m.compatibility > 0
    /\ {"chat_mode", "interests"} \subseteq m.matchedOn

\* C19: when connections 1 and 2, of the same chat mode and with a shared
\* interest, have each sent join-queue, in any order and interleaving of their
\* handlers, a session of exactly 1 and 2 with compatibility > 0 and matched
\* on chat_mode and interests is eventually in activeMatches.
C19_BothEnqueuedArePaired ==
    BothEnqueued ~> (\E m \in activeMatches : SessionOfBoth(m))

\* Both scans ran before either entry was stored, both connections waited,
\* and the tick has made their session.
C19_Witness ==
    /\ BothEnqueued
    /\ tick.pc = "t_cm_io2"
    /\ tick.match \in activeMatches
    /\ SessionOfBoth(tick.match)

\* The values Date.now() takes.
ClockReadings == {k * ClockStep : k \in 0..MaxClockSteps}

\* The entry that connection s made at time t is in the waiting set.
Waiting(s, t) ==
    \E i \in 1..Len(waitingQueue) :
        waitingQueue[i].socketId = s /\ waitingQueue[i].joinedAt = t

\* C21: a waiting entry whose age exceeds the stale threshold (10 minutes) is
\* eventually out of the waiting set, by the staleness sweep alone: no client
\* has to send a request or to disconnect for it.
C21_StaleEntryIsSwept ==
    \A s \in Sockets, t \in ClockReadings :
        (Waiting(s, t) /\ now - t > StaleThreshold) ~> ~Waiting(s, t)

\* Every request was handled, nobody was paired and nobody disconnected, so
\* whoever asked was waiting; the threshold has passed and the sweep has
\* emptied the waiting set.
C21_Witness ==
    /\ nJoins > 0
    /\ joins = {}
    /\ activeMatches = {}
    /\ matchingInProgress = {}
    /\ \A s \in Sockets : conn[s] # "closed"
    /\ now > StaleThreshold
    /\ waitingQueue = <<>>


\* The step takes the entry that connection s made at time t, older than the
\* stale threshold, out of the waiting set without pairing s or closing it:
\* the step of the staleness sweep.
SweptAway(s, t) ==
    /\ Waiting(s, t)
    /\ now - t > StaleThreshold
    /\ ~QueueHas(waitingQueue', s)
    /\ s \notin matchingInProgress'
    /\ conn[s] = "open"
    /\ conn'[s] = "open"

\* C22: whenever the staleness sweep removes a waiting entry, the owning
\* connection is sent an event that tells it its queue entry was dropped.
C22_SweptOwnerIsNotified ==
    [][\A s \in Sockets, t \in ClockReadings :
          SweptAway(s, t) => \E d \in emitted' : d.to = s]_vars

\* The session of room roomId has exactly the members a and b.
InSession(a, b, roomId) ==
    \E m \in activeMatches : m.roomId = roomId /\ Members(m) = {a, b}

\* C23: within one session, what a member was sent of the chat messages of
\* the other member is in the order in which the other member sent them: a
\* message never comes after one that was sent later.
C23_SenderOrderPreserved ==
    \A s \in Sockets : \A i, k \in 1..Len(received[s]) :
        /\ i < k
        /\ received[s][i].from = received[s][k].from
        /\ received[s][i].room = received[s][k].room
        /\ InSession(received[s][i].from, s, received[s][i].room)
        => received[s][i].n < received[s][k].n

\* The step is the one in which the send-message handler of the message m
\* returns from moderateText.
Moderated(m) ==
    /\ msgs # <<>>
    /\ m = Head(msgs)
    /\ m.left = 1
    /\ msgs' = Tail(msgs)

PendingMessages == {msgs[i] : i \in 1..Len(msgs)}

\* C24: a chat message reaches the peer only in the step in which moderateText
\* has returned for it, only when the result allows it, and then as the
\* filtered text, in which the profane words are masked; when the result
\* rejects the message the step relays nothing and sends message-blocked to the
\* sender, and when it allows the message every connected socket of the room
\* but the sender receives it.
C24_ModeratedBeforeForwarding ==
    [][/\ \A d \in emitted' : d.ev = "receive-message" =>
              \E m \in PendingMessages :
                  /\ Moderated(m)
                  /\ d.n = m.n /\ d.from = m.sock /\ d.room = m.room /\ d.to # m.sock
                  /\ moderateText(m.text).allowed
                  /\ d.text = moderateText(m.text).filtered
                  /\ ~Profane(d.text)
       /\ \A m \in PendingMessages :
              Moderated(m) =>
                  IF moderateText(m.text).allowed
                  THEN \A p \in (rooms[m.room] \ {m.sock}) \cap Open :
                           \E d \in emitted' :
                               d.to = p /\ d.ev = "receive-message" /\ d.n = m.n
                  ELSE /\ \A d \in emitted' : d.ev = "message-blocked" /\ d.to = m.sock
                       /\ m.sock \in Open => emitted' # {}
      ]_vars

\* The peer has just received a message whose profane word is masked, while a
\* message that moderateText rejects waits for its result.
C24_Witness ==
    /\ \E d \in emitted : d.ev = "receive-message" /\ d.text = "what a ****"
    /\ \E m \in PendingMessages : ~moderateText(m.text).allowed

\* C25: the step that receives a request without a required field (send-message
\* without roomId, message or userId, join-queue without a user) sends one
\* error event to the socket of the request and nothing else, and leaves the
\* waiting set, the session table, the presence records with their last
\* activity, the rooms and the handlers in flight as they were.
C25_MalformedRequestRejected ==
    [][malformed' # NoRequest =>
          /\ emitted' = {[to |-> malformed'.sock, ev |-> "error", room |-> 0,
                          from |-> malformed'.sock, n |-> 0, text |-> None]}
          /\ UNCHANGED <<waitingQueue, activeMatches, matchingInProgress, nextRoom>>
          /\ UNCHANGED <<onlineUsers, userSockets, socketUsers>>
          /\ UNCHANGED <<rooms, activeChats, joins, msgs, received, tick>>
      ]_vars

\* A member of a session whose presence record was last active before the
\* present minute has just sent a send-message without a required field.
C25_Witness ==
    /\ malformed.ev = "send-message"
    /\ \E m \in activeMatches : malformed.sock \in Members(m)
    /\ socketUsers[malformed.sock] # 0
    /\ HasRecord(socketUsers[malformed.sock])
    /\ onlineUsers[socketUsers[malformed.sock]].lastActivity < now
    /\ \E d \in emitted : d.ev = "error"

\* The step is the one in which the setUserOnline call of the join-queue
\* request j returns.
SetOnlineReturns(j) ==
    /\ j \in joins
    /\ j.pc = "on_io"
    /\ j \notin joins'

\* C27: when setUserOnline(userId, socketId) returns, the registry holds the
\* record of userId with that socketId, userSockets and socketUsers agree with
\* it, and no other socket is mapped to the user, whatever other calls for the
\* user were in flight.
C27_OneRecordWithNewConnection ==
    [][\A j \in joins :
          SetOnlineReturns(j) =>
              /\ onlineUsers'[j.uid] # NoRecord
              /\ onlineUsers'[j.uid].socketId = j.sock
              /\ userSockets'[j.uid] = j.sock
              /\ \A s \in Sockets : socketUsers'[s] = j.uid <=> s = j.sock
      ]_vars

\* C28: once the disconnect handler of a socket has run to its end, no
\* presence record names that socket as its socketId.
C28_NoRecordOfClosedConnection ==
    \A s \in Sockets :
        disc[s] = "done" =>
            \A u \in Users : onlineUsers[u] = NoRecord \/ onlineUsers[u].socketId # s

\* The step calls setUserOffline(u) for a user that has a record: from
\* setUserOnline of a join-queue request, or from handleSocketDisconnect.
OfflineCalled(u) ==
    \/ \E j \in joins' \ joins : j.pc = "off_io" /\ j.uid = u
    \/ \E s \in Sockets : disc[s] # "d_io1" /\ disc'[s] = "d_io1" /\ leaving'[s] = u

\* The step is the one in which such a call of setUserOffline(u) returns.
OfflineReturns(u) ==
    \/ \E j \in joins \ joins' : j.pc = "off_io" /\ j.uid = u
    \/ \E s \in Sockets : disc[s] = "d_io1" /\ disc'[s] # "d_io1" /\ leaving[s] = u

\* The step calls setUserOffline(u) for a user without a record, from
\* setUserOnline of the join-queue request it receives on socket s.
OfflineSkipped(u, s) ==
    /\ nJoins' = nJoins + 1
    /\ ~HasRecord(u)
    /\ \E j \in joins' \ joins : j.n = nJoins' /\ j.uid = u /\ j.sock = s

\* C29: a call of setUserOffline(u) for a user with a record removes the
\* record and the user's socket, and broadcasts user_offline for u once, when
\* it returns; no other step broadcasts user_offline; a call for a user
\* without a record broadcasts nothing and changes no presence map (the maps
\* change only by what the calling setUserOnline writes for that user and
\* socket).
C29_OfflineRemovesAndAnnouncesOnce ==
    [][/\ \A u \in Users :
              /\ OfflineCalled(u) => onlineUsers'[u] = NoRecord /\ userSockets'[u] = 0
              /\ OfflineReturns(u) => [type |-> "user_offline", user |-> u] \in presence'
       /\ \A e \in presence' : e.type = "user_offline" => OfflineReturns(e.user)
       /\ \A u \in Users, s \in Sockets :
              OfflineSkipped(u, s) =>
                  /\ presence' = {}
                  /\ \A j \in joins' : j.n = nJoins' => j.pc # "off_io"
                  /\ \A v \in Users \ {u} :
                         onlineUsers'[v] = onlineUsers[v] /\ userSockets'[v] = userSockets[v]
                  /\ \A t \in Sockets \ {s} : socketUsers'[t] = socketUsers[t]
      ]_vars

\* The disconnect handler of a socket has just come back from setUserOffline:
\* the user's record is gone and user_offline was broadcast.
C29_Witness ==
    \E s \in Sockets, u \in Users :
        /\ disc[s] = "d_io2"
        /\ presence = {[type |-> "user_offline", user |-> u]}
        /\ onlineUsers[u] = NoRecord

\* The typing and signaling events as they are relayed.
RelayedOut == {Outgoing(ev) : ev \in RelayEvents}

\* C30: the step that receives a typing or signaling event from a socket and
\* relays it sets the last activity of the socket's presence record to the
\* present time.
C30_InboundEventRefreshesActivity ==
    [][\A d \in emitted' :
          (/\ d.ev \in RelayedOut
           /\ socketUsers[d.from] # 0
           /\ HasRecord(socketUsers[d.from]))
              => onlineUsers'[socketUsers[d.from]].lastActivity = now'
      ]_vars

\* What a bridge operation returns when the store gives no answer.
FallbackOf(op) ==
    CASE op = "redis.setSession" -> "false"
      [] op = "redis.getSession" -> "null"
      [] op = "redis.deleteSession" -> "false"
      [] op = "redis.checkRateLimit" -> "true"
      [] OTHER -> "undefined"

BridgeOps ==
    {"redis.setSession", "redis.getSession", "redis.deleteSession", "redis.checkRateLimit",
     "redis.setUserOnline", "redis.setUserOffline", "redis.incrementRoomStats"}

\* C26: no bridge or service operation raises; while Redis is not configured,
\* not connected or rejects the command, a bridge operation returns its
\* fallback value (the rate-limit check allows the request); and what
\* addToQueue, removeFromQueue, setUserOnline and setUserOffline return and do
\* to the queue, the sessions, the marks and the presence maps is what they
\* return and do from the same state when Redis is available.
C26_StoreUnavailableChangesNothing ==
    [][/\ ~reply'.raised
       /\ (store # "available" /\ reply'.op \in BridgeOps)
              => reply'.value = FallbackOf(reply'.op)
       /\ \A s \in Open, d \in StoreDatas :
              addToQueue(ProfileOf(s, d), store) => addToQueue(ProfileOf(s, d), "available")
       /\ \A s \in Open : dequeue(s, store) => dequeue(s, "available")
       /\ \A s \in Open : \A u \in UserIdsOf(s) :
              /\ setUserOnline(u, s, store) => setUserOnline(u, s, "available")
              /\ setUserOffline(u, store) => setUserOffline(u, "available")
      ]_vars

\* While the commands are rejected, addToQueue has just paired two
\* connections, one of which has a presence record.
C26_Witness ==
    /\ store = "failing"
    /\ reply = Returned("addToQueue", "match")
    /\ activeMatches # {}
    /\ \E u \in Users : HasRecord(u)

\* The step is a run of the presence sweep: a record goes while no request,
\* event or disconnect is received and no handler moves on.
SweepRuns ==
    /\ UNCHANGED <<joins, nJoins, disc, nEvents, now>>
    /\ \E u \in Users : HasRecord(u) /\ onlineUsers'[u] = NoRecord

\* C31: a run of the presence sweep removes every record whose last activity
\* is more than the inactivity timeout ago, leaves every other record as it
\* is, and broadcasts user_offline for each record it removes.
C31_SweepRemovesAndAnnounces ==
    [][SweepRuns =>
          \A u \in Users :
              IF Inactive(u)
              THEN /\ onlineUsers'[u] = NoRecord
                   /\ [type |-> "user_offline", user |-> u] \in presence'
              ELSE onlineUsers'[u] = onlineUsers[u]
      ]_vars

\* The list holds each of the passing users that has a record once, and no
\* other, the user that joined later first.
ListedRight(list, passing) ==
    /\ {list[i] : i \in 1..Len(list)} = {u \in passing : HasRecord(u)}
    /\ \A i, k \in 1..Len(list) : i # k => list[i] # list[k]
    /\ \A i, k \in 1..Len(list) :
           i < k => onlineUsers[list[i]].joinedAt >= onlineUsers[list[k]].joinedAt

\* C32: getOnlineUsers, getOnlineUsersByTags and getOnlineUsersByCountry return
\* exactly the records that pass the filter, ordered by join time descending.
C32_ListIsNewestFirst ==
    /\ ListedRight(getOnlineUsers, Users)
    /\ \A tags \in TagFilters :
           ListedRight(getOnlineUsersByTags(tags),
                       {u \in Users : UserTags(u) \cap tags # {}})
    /\ \A country \in CountryFilters :
           ListedRight(getOnlineUsersByCountry(country),
                       {u \in Users : UserCountry(u) = country \/ country = AnyOnEarth})

\* calculateCompatibility was called on its own with both join times at or
\* before the time of the call.
ScoredInTime ==
    /\ scored.result # NoResult
    /\ scored.user1.joinedAt <= scored.t
    /\ scored.user2.joinedAt <= scored.t

\* The points of every step of the scorer, when the chat modes agree.
WeightedSum == 
    IF ChatModeCompatible(scored.user1, scored.user2)
    THEN Score(scored.user1, scored.user2, scored.t)
    ELSE 0

WithInterests(interests) == [scored.user1 EXCEPT !.interests = interests]

\* C34: with every other attribute and the time the same, a pair that shares
\* more interest tags never scores lower.
C34_MoreSharedTagsNeverLower ==
    scored.result # NoResult =>
        \A interests \in SUBSET ScoreTags :
            Cardinality(commonInterests(WithInterests(interests), scored.user2))
                >= Cardinality(commonInterests(scored.user1, scored.user2))
            => calculateCompatibility(WithInterests(interests), scored.user2,
                                      scored.t).compatibility
                   >= scored.result.compatibility

\* A pair that shares every tag was scored, below the cut-off and above what
\* it scores with four tags shared.
C34_Witness ==
    /\ scored.result # NoResult
    /\ commonInterests(scored.user1, scored.user2) = ScoreTags
    /\ scored.result.compatibility < MaxScore
    /\ scored.result.compatibility
           > calculateCompatibility(WithInterests({"music", "art", "film"}), scored.user2,
                                    scored.t).compatibility

\* match pairs two connections, the second of them not marked mid-pairing in
\* the set inProgress.
PairsUnmarkedOther(match, inProgress) ==
    /\ match.user2.socketId # match.user1.socketId
    /\ match.user2.socketId \notin inProgress

\* C35: a scan, of addToQueue or of the tick, never pairs its participant with
\* an entry of the same connection and never selects an entry that is marked
\* mid-pairing when the scan runs.
C35_ScanSkipsSelfAndMarked ==
    [][/\ \A j \in joins :
              (j.pc = "q_io" /\ j \notin joins') =>
                  \A k \in joins' :
                      (k.n = j.n /\ k.pc = "cm_io1") =>
                          PairsUnmarkedOther(k.match, matchingInProgress)
       /\ (tick' # tick /\ tick'.pc = "t_cm_io1") =>
              PairsUnmarkedOther(tick'.match, matchingInProgress)]_vars

\* A scan of addToQueue has found nobody although an entry of another
\* connection, compatible above the threshold, waits: that entry is marked
\* mid-pairing.
C35_Witness ==
    \E j \in joins :
        /\ j.pc = "nm_mu"
        /\ \E i \in 1..Len(waitingQueue) :
               /\ waitingQueue[i].socketId \in matchingInProgress
               /\ waitingQueue[i].socketId # j.profile.socketId
               /\ calculateCompatibility(j.profile, waitingQueue[i], now).compatibility
                      > Threshold

\* C36: the tick pairs only participants that are in the waiting set when it
\* pairs them: an entry of its snapshot that was removed from the waiting set
\* while the tick was suspended is not placed in a session.
C36_TickPairsWaitingOnly ==
    [][(tick' # tick /\ tick'.pc = "t_cm_io1") =>
          \A s \in Members(tick'.match) : QueueHas(waitingQueue, s)]_vars

\* C37: both members of every session in activeMatches are marked mid-pairing;
\* no removeFromQueue and no sweep clears the mark of a member of a session.
C37_SessionMembersStayMarked ==
    \A m \in activeMatches : \A s \in Members(m) : s \in matchingInProgress

\* C38: onlineUsers and userSockets have the same user ids, userSockets[u] = s
\* exactly when socketUsers[s] = u, and the record of u carries the connection
\* userSockets[u].
C38_PresenceIndexesAgree ==
    /\ \A u \in Users : HasRecord(u) <=> userSockets[u] # 0
    /\ \A u \in Users, s \in Sockets : userSockets[u] = s <=> socketUsers[s] = u
    /\ \A u \in Users : HasRecord(u) => onlineUsers[u].socketId = userSockets[u]

\* A step of cleanupStaleEntries that removes an entry.
StaleSweepRuns ==
    /\ waitingQueue' # waitingQueue
    /\ UNCHANGED <<joins, tick, disc, conn, now>>

\* C39: the staleness sweep removes no waiting entry whose age is at most the
\* stale threshold, and leaves the sessions and the mid-pairing marks of the
\* members of sessions as they are.
C39_StaleSweepTouchesStaleEntriesOnly ==
    [][StaleSweepRuns =>
          /\ \A i \in 1..Len(waitingQueue) :
                 ~Stale(waitingQueue[i]) =>
                     \E k \in 1..Len(waitingQueue') : waitingQueue'[k] = waitingQueue[i]
          /\ activeMatches' = activeMatches
          /\ \A m \in activeMatches : \A s \in Members(m) :
                 s \in matchingInProgress => s \in matchingInProgress'
      ]_vars

====
